---- MODULE Spec2Model ----
(***************************************************************************)
(* A model of zipcrack: the PKWARE cipher primitives (src/src/decrypt.rs), *)
(* the password enumerator (src/src/password_iter.rs) and the two search   *)
(* drivers (src/src/crack.rs).                                             *)
(*                                                                         *)
(* TLC integers are 32-bit signed, so a u32 is kept as its four bytes,     *)
(* least significant first: <<b0, b1, b2, b3>> stands for                  *)
(* b0 + 2^8*b1 + 2^16*b2 + 2^24*b3.  Every operation on words is done on   *)
(* the bytes and wraps exactly where the Rust operation wraps.             *)
(***************************************************************************)
EXTENDS Integers, Sequences, FiniteSets, TLC

(***************************************************************************)
(* Bytes, bits and words                                                   *)
(***************************************************************************)
Byte == 0..255

\* bit i (0 = least significant) of a natural number below 2^31
Bit(n, i) == (n \div (2^i)) % 2

\* bit i of a `^` b, in place
XorBit(a, b, i) == ((Bit(a, i) + Bit(b, i)) % 2) * (2^i)

\* u8 `^` u8, bit by bit, tabulated once
ByteXor ==
    [a \in 0..255 |-> [b \in 0..255 |->
        XorBit(a, b, 0) + XorBit(a, b, 1) + XorBit(a, b, 2) + XorBit(a, b, 3)
        + XorBit(a, b, 4) + XorBit(a, b, 5) + XorBit(a, b, 6) + XorBit(a, b, 7)]]

xor8(a, b) == ByteXor[a][b]

\* u32 `^` u32
xor32(x, y) ==
    <<xor8(x[1], y[1]), xor8(x[2], y[2]), xor8(x[3], y[3]), xor8(x[4], y[4])>>

\* u32 `>> 8`
shr8(x) == <<x[2], x[3], x[4], 0>>

\* the u32 whose value is the natural number n < 2^31
ToWord(n) == <<n % 256, (n \div 256) % 256, (n \div 65536) % 256, n \div 16777216>>

\* the 32 bits of a word, least significant first, and back
WordBits(x) == [i \in 1..32 |-> Bit(x[((i - 1) \div 8) + 1], (i - 1) % 8)]

BitsByte(bits, k) ==
    bits[8*k + 1] + 2*bits[8*k + 2] + 4*bits[8*k + 3] + 8*bits[8*k + 4]
    + 16*bits[8*k + 5] + 32*bits[8*k + 6] + 64*bits[8*k + 7] + 128*bits[8*k + 8]

BitsWord(bits) == <<BitsByte(bits, 0), BitsByte(bits, 1), BitsByte(bits, 2), BitsByte(bits, 3)>>

(***************************************************************************)
(* decrypt.rs: the CRC-32 table                                            *)
(***************************************************************************)
\* the byte with its bits in place
same_bits8(b) == b

\* u8::reverse_bits
reverse_bits8(b) ==
    128*Bit(b, 0) + 64*Bit(b, 1) + 32*Bit(b, 2) + 16*Bit(b, 3)
    + 8*Bit(b, 4) + 4*Bit(b, 5) + 2*Bit(b, 6) + Bit(b, 7)

\* u32::reverse_bits
reverse_bits32(x) == LET bits == WordBits(x) IN BitsWord([i \in 1..32 |-> bits[33 - i]])

\* u32 `<< 1` (the top bit is shifted out)
shl1(x) ==
    <<(2*x[1]) % 256,
      ((2*x[2]) % 256) + (x[1] \div 128),
      ((2*x[3]) % 256) + (x[2] \div 128),
      ((2*x[4]) % 256) + (x[3] \div 128)>>

\* u32 `>> 31`
shr31(x) == x[4] \div 128

\* the generator polynomial of crc32_byte, 0x04c11db7
CRC_POLY == 79764919

\* one round of the loop of crc32_byte
crc32_byte_round(value) == xor32(shl1(value), ToWord(shr31(value) * CRC_POLY))

\* `while i < 8 { .. }` on the reversed byte in the top byte of value
crc32_byte(byte) ==
    LET RECURSIVE rounds(_, _)
        rounds(value, i) ==
            IF i < 8 THEN rounds(crc32_byte_round(value), i + 1) ELSE value
    IN reverse_bits32(rounds(<<0, 0, 0, reverse_bits8(byte)>>, 0))

\* crc32_table(): table[i] = crc32_byte(i as u8), i = 0 .. 255
crc32_table == [i \in 0..255 |-> crc32_byte(i)]

CRC_32_TAB == crc32_table

crc32(crc, byte) ==
    LET index == xor8(crc[1], byte)
    IN xor32(CRC_32_TAB[index], shr8(crc))

(***************************************************************************)
(* decrypt.rs: the key update and the keystream byte                       *)
(***************************************************************************)
\* Wrapping<u32> + Wrapping<u32>
wrapping_add(x, y) ==
    LET s1 == x[1] + y[1]
        s2 == x[2] + y[2] + (s1 \div 256)
        s3 == x[3] + y[3] + (s2 \div 256)
        s4 == x[4] + y[4] + (s3 \div 256)
    IN <<s1 % 256, s2 % 256, s3 % 256, s4 % 256>>

\* Wrapping<u32> * Wrapping<u32>
wrapping_mul(x, y) ==
    LET p1 == x[1]*y[1]
        p2 == x[1]*y[2] + x[2]*y[1] + (p1 \div 256)
        p3 == x[1]*y[3] + x[2]*y[2] + x[3]*y[1] + (p2 \div 256)
        p4 == x[1]*y[4] + x[2]*y[3] + x[3]*y[2] + x[4]*y[1] + (p3 \div 256)
    IN <<p1 % 256, p2 % 256, p3 % 256, p4 % 256>>

\* the multiplier of the key update
KEY_MULTIPLIER == 134775813

\* keys[1] of update_keys from the old keys[1] and the new keys[0]: the two
\* wrapping assignments
\* the multiplication without the `+ Wrapping(1)`
next_key1_without_one(key1, key0) ==
    wrapping_mul(wrapping_add(key1, <<key0[1], 0, 0, 0>>), ToWord(KEY_MULTIPLIER))

next_key1(key1, key0) ==
    wrapping_add(wrapping_mul(wrapping_add(key1, <<key0[1], 0, 0, 0>>),
                              ToWord(KEY_MULTIPLIER)),
                 ToWord(1))

\* keys[2] = crc32(keys[2], (keys[1] >> 24) as u8), on the new keys[1]
with_key2(key0, key1, key2) == <<key0, key1, crc32(key2, key1[4])>>

with_key1(key0, key1, key2) == with_key2(key0, next_key1(key1, key0), key2)

update_keys(keys, c) == with_key1(crc32(keys[1], c), keys[2], keys[3])

\* Wrapping<u16> * Wrapping<u16>
\* the product of the low byte of a alone
mul16_low_partial(a, b) == ((a % 256) * b) % 65536

wrapping_mul16(a, b) == (((a % 256) * b) + ((((a \div 256) * b) % 256) * 256)) % 65536

\* u16 `| 2` and u16 `^ 1`
or2(t) == IF Bit(t, 1) = 1 THEN t ELSE t + 2

xor1(t) == IF Bit(t, 0) = 1 THEN t - 1 ELSE t + 1

\* the low byte of the product instead of the second
keystream_low(temp) == wrapping_mul16(temp, xor1(temp)) % 256

\* `(Wrapping(temp) * Wrapping(temp ^ 1)).0 >> 8` and `res as u8`
keystream(temp) == (wrapping_mul16(temp, xor1(temp)) \div 256) % 256

decrypt_byte(key2) == keystream(or2(key2[1] + (256 * key2[2])))

(***************************************************************************)
(* decrypt.rs: the header check                                            *)
(***************************************************************************)
\* the three key words before any password byte
KEY0 == 305419896

KEY1 == 591751049

KEY2 == 878082192

InitialKeys == <<ToWord(KEY0), ToWord(KEY1), ToWord(KEY2)>>

\* u16::to_be_bytes
to_be_bytes(t) == <<t \div 256, t % 256>>

\* u16::to_le_bytes
to_le_bytes(t) == <<t % 256, t \div 256>>

\* `for &c in password { update_keys(&mut keys, c) }`
FeedPassword(keys, password) ==
    LET RECURSIVE go(_, _)
        go(ks, i) == IF i > Len(password) THEN ks ELSE go(update_keys(ks, password[i]), i + 1)
    IN go(keys, 1)

\* 6.1.6: `for buf in &mut ed.encryption_header { .. }`; the value is the
\* decrypted buffer
DecryptHeader(header, keys) ==
    LET RECURSIVE go(_, _, _)
        go(buf, ks, i) ==
            IF i > Len(header) THEN buf
            ELSE LET c == xor8(buf[i], decrypt_byte(ks[3]))
                 IN go([buf EXCEPT ![i] = c], update_keys(ks, c), i + 1)
    IN go(header, keys, 1)

password_matches(ed, password) ==
    LET keys == FeedPassword(InitialKeys, password)
        buf == DecryptHeader(ed.encryption_header, keys)
    IN SubSeq(buf, 11, 12) = to_le_bytes(ed.last_mod_file_time)

encryption_data_matches(ed, keys) ==
    LET buf == DecryptHeader(ed.encryption_header, keys)
    IN SubSeq(buf, 11, 12) = to_le_bytes(ed.last_mod_file_time)

(***************************************************************************)
(* decrypt.rs: the eight-lane primitives and the unrolled check            *)
(***************************************************************************)
\* `for i in 0..8 { result[i] = CRC_32_TAB[index] ^ (crc[i] >> 8) }`
crc32_chunked(crc, byte) ==
    LET RECURSIVE lanes(_, _)
        lanes(result, l) ==
            IF l > 8 THEN result
            ELSE lanes(Append(result, xor32(CRC_32_TAB[xor8(crc[l][1], byte[l])], shr8(crc[l]))),
                       l + 1)
    IN lanes(<<>>, 1)

\* keys[1][i] of update_keys_chunked, for every lane, on the new keys[0]
next_key1_chunked(key1, key0) ==
    LET RECURSIVE lanes(_, _)
        lanes(result, l) ==
            IF l > 8 THEN result
            ELSE lanes(Append(result, next_key1(key1[l], key0[l])), l + 1)
    IN lanes(<<>>, 1)

\* the top byte of lane 0 in every lane
keys1_shifted_lane0(key1) ==
    <<key1[1][4], key1[1][4], key1[1][4], key1[1][4],
      key1[1][4], key1[1][4], key1[1][4], key1[1][4]>>

\* keys1_shifted[i] = (keys[1][i] >> 24) as u8
keys1_shifted(key1) ==
    <<key1[1][4], key1[2][4], key1[3][4], key1[4][4],
      key1[5][4], key1[6][4], key1[7][4], key1[8][4]>>

with_key2_chunked(key0, key1, key2) ==
    <<key0, key1, crc32_chunked(key2, keys1_shifted(key1))>>

with_key1_chunked(key0, key1, key2) ==
    with_key2_chunked(key0, next_key1_chunked(key1, key0), key2)

update_keys_chunked(keys, c) ==
    with_key1_chunked(crc32_chunked(keys[1], c), keys[2], keys[3])

decrypt_byte_chunked(key2) ==
    LET RECURSIVE lanes(_, _)
        lanes(res, l) ==
            IF l > 8 THEN res ELSE lanes(Append(res, decrypt_byte(key2[l])), l + 1)
    IN lanes(<<>>, 1)

\* u64 `^` u64 on the little-endian bytes of the two operands
xor64(x, y) ==
    <<xor8(x[1], y[1]), xor8(x[2], y[2]), xor8(x[3], y[3]), xor8(x[4], y[4]),
      xor8(x[5], y[5]), xor8(x[6], y[6]), xor8(x[7], y[7]), xor8(x[8], y[8])>>

\* one round of the decryption loop of password_matches_unrolled: st is
\* (encryption_header_chunk, keys_chunk), c the decrypted bytes of position n
DecryptRound(st, n, c) == <<[st[1] EXCEPT ![n] = c], update_keys_chunked(st[2], c)>>

\* `for buf in &mut encryption_header_chunk { .. }`; the value is
\* encryption_header_chunk after the loop
DecryptHeaderChunk(header_chunk, keys_chunk) ==
    LET RECURSIVE go(_, _)
        go(st, n) ==
            IF n > Len(header_chunk) THEN st[1]
            ELSE go(DecryptRound(st, n, xor64(st[1][n], decrypt_byte_chunked(st[2][3]))),
                    n + 1)
    IN go(<<header_chunk, keys_chunk>>, 1)

\* [v; 8]
broadcast(v) == <<v, v, v, v, v, v, v, v>>

\* every lane starts from the initial constants, whatever the prefix state
KeysChunk_initial(keys) ==
    <<broadcast(ToWord(KEY0)), broadcast(ToWord(KEY1)), broadcast(ToWord(KEY2))>>

\* keys_chunk before the last character is fed
KeysChunk(keys) == <<broadcast(keys[1]), broadcast(keys[2]), broadcast(keys[3])>>

\* encryption_header_chunk before the decryption
HeaderChunk(header) ==
    <<broadcast(header[1]), broadcast(header[2]), broadcast(header[3]),
      broadcast(header[4]), broadcast(header[5]), broadcast(header[6]),
      broadcast(header[7]), broadcast(header[8]), broadcast(header[9]),
      broadcast(header[10]), broadcast(header[11]), broadcast(header[12])>>

\* `for i in 0..8 { if .. { matching_chars.push(last_char_chunk[i]) } }`: the
\* bytes pushed, in lane order
PushMatching(buf, low_byte, high_byte, last_char_chunk) ==
    LET RECURSIVE push(_, _)
        push(out, l) ==
            IF l > 8 THEN out
            ELSE IF buf[11][l] = low_byte /\ buf[12][l] = high_byte
                 THEN push(Append(out, last_char_chunk[l]), l + 1)
                 ELSE push(out, l + 1)
    IN push(<<>>, 1)

\* the body of `for &last_char_chunk in password_block.alphabet`
MatchingLanes(password_block, ed, last_char_chunk) ==
    PushMatching(
        DecryptHeaderChunk(
            HeaderChunk(ed.encryption_header),
            update_keys_chunked(KeysChunk(password_block.initialized_keys), last_char_chunk)),
        to_le_bytes(ed.last_mod_file_time)[1],
        to_le_bytes(ed.last_mod_file_time)[2],
        last_char_chunk)

\* the capacity of the ArrayVec the matching bytes are pushed into
RESULT_CAPACITY == 256

\* matching_chars after the call, every push taken as succeeding
password_matches_unrolled(password_block, ed, matching_chars) ==
    LET RECURSIVE chunks(_, _)
        chunks(out, n) ==
            IF n > Len(password_block.alphabet) THEN out
            ELSE chunks(out \o MatchingLanes(password_block, ed, password_block.alphabet[n]),
                        n + 1)
    IN chunks(matching_chars, 1)

\* ArrayVec::push panics when the vector is full
PushPanics(password_block, ed, matching_chars) ==
    Len(password_matches_unrolled(password_block, ed, matching_chars)) > RESULT_CAPACITY

(***************************************************************************)
(* opt.rs and password_iter.rs: the options and the enumerator             *)
(***************************************************************************)
\* Option<String>: None
NoStart == [is_some |-> FALSE, pw |-> <<>>]

\* alphabet.iter().position(|letter| letter == byte), 0-based; -1 for None
position(alphabet, byte) ==
    IF \E p \in 1..Len(alphabet) : alphabet[p] = byte
    THEN (CHOOSE p \in 1..Len(alphabet) :
              /\ alphabet[p] = byte
              /\ \A q \in 1..(p - 1) : alphabet[q] # byte) - 1
    ELSE -1

\* the initial candidate with the start password left aside
InitialPassword_fresh(o) == [n \in 1..o.min_length |-> o.alphabet[1]]

\* vec![alphabet[0]; min_length] or the start password
InitialPassword(o) ==
    IF o.start_password.is_some THEN o.start_password.pw
    ELSE [n \in 1..o.min_length |-> o.alphabet[1]]

\* `while initialized_keys.len() <= password.len() { .. }`
ExtendKeys(keys, pw) ==
    LET RECURSIVE go(_)
        go(ks) == IF Len(ks) <= Len(pw)
                  THEN go(Append(ks, update_keys(ks[Len(ks)], pw[Len(ks)])))
                  ELSE ks
    IN go(keys)

\* a pop that leaves the vector as it is
pop_nothing(v) == v

\* Vec::pop
pop(v) == IF Len(v) = 0 THEN v ELSE SubSeq(v, 1, Len(v) - 1)

\* the letters of the alphabet taken from its end
letter_from_end(alphabet, idx) == alphabet[Len(alphabet) - idx]

\* alphabet[password_idx[cursor]], the index 0-based
letter(alphabet, idx) == alphabet[idx + 1]

\* the last four statements of the loop of add_offset: the digit at the cursor
\* takes the carry
add_digit(alphabet, st, cursor, carry) ==
    [st |-> [st EXCEPT !.password_idx[cursor + 1] = (@ + carry) % Len(alphabet),
                       !.password[cursor + 1] =
                           letter(alphabet,
                                  (st.password_idx[cursor + 1] + carry) % Len(alphabet))],
     carry |-> (st.password_idx[cursor + 1] + carry) \div Len(alphabet)]

\* two elements prepended instead of one
insert_front_twice(st) ==
    [st EXCEPT !.password_idx = <<0, 0>> \o @, !.password = <<0, 0>> \o @]

\* password_idx.insert(0, 0); password.insert(0, 0)
insert_front(st) == [st EXCEPT !.password_idx = <<0>> \o @, !.password = <<0>> \o @]

\* initialized_keys.pop()
pop_keys(st) == [st EXCEPT !.initialized_keys = pop(@)]

\* `while carry != 0 { .. }` of add_offset, from a cursor and a carry; e is the
\* enumerator state (password_idx, password, initialized_keys); cursor and
\* indices are 0-based as in the code.  The value is the state after the loop
\* and the bool returned.
add_offset_loop(o, e, cursor0, carry0) ==
    LET RECURSIVE loop(_, _)
        loop(d, cursor) ==
            IF d.carry = 0 THEN [e |-> d.st, finished |-> FALSE]
            ELSE IF cursor = 0
                 THEN IF Len(d.st.password) = o.max_length
                      THEN [e |-> d.st, finished |-> TRUE]
                      ELSE loop(add_digit(o.alphabet, insert_front(d.st), 0, d.carry - 1), 0)
                 ELSE loop(add_digit(o.alphabet, pop_keys(d.st), cursor - 1, d.carry),
                           cursor - 1)
    IN loop([st |-> e, carry |-> carry0], cursor0)

\* an advance by one more than asked for
add_offset_and_one(o, e, offset) == add_offset_loop(o, e, Len(e.password), offset + 1)

\* the closure add_offset
add_offset(o, e, offset) == add_offset_loop(o, e, Len(e.password), offset)

\* a subtraction that subtracts nothing
saturating_sub0(n) == n

\* u8::saturating_sub(1)
saturating_sub1(n) == IF n = 0 THEN 0 ELSE n - 1

\* one chunk padded with its first byte
padded_with_first(slice) ==
    [l \in 1..8 |-> IF l <= Len(slice) THEN slice[l] ELSE slice[1]]

\* one chunk as [u8; 8]: the slice, then its last byte up to the eighth lane
padded(slice) ==
    LET RECURSIVE lanes(_, _)
        lanes(arr, l) ==
            IF l > 8 THEN arr
            ELSE lanes(Append(arr, IF l <= Len(slice) THEN slice[l] ELSE slice[Len(slice)]),
                       l + 1)
    IN lanes(<<>>, 1)

\* alphabet.chunks(8), the last chunk padded with its last byte
chunked_alphabet(alphabet) ==
    [n \in 1..((Len(alphabet) + 7) \div 8) |->
        padded(SubSeq(alphabet, 8*(n - 1) + 1,
                      IF 8*n <= Len(alphabet) THEN 8*n ELSE Len(alphabet)))]

\* the options for_each_password_unrolled hands to for_each_password
unrolled_opt(o) ==
    [o EXCEPT !.start_password = IF @.is_some THEN [@ EXCEPT !.pw = pop(@)] ELSE @,
              !.min_length = saturating_sub1(@),
              !.max_length = saturating_sub1(@)]

\* the options the enumerator of a worker runs with
EnumOpt(o) == IF o.unroll THEN unrolled_opt(o) ELSE o

(***************************************************************************)
(* crack.rs: the two predicates                                            *)
(***************************************************************************)
\* the closure `callback` of crack
crack_callback(fingerprints, initialized_keys) ==
    \A n \in 1..Len(fingerprints) : encryption_data_matches(fingerprints[n], initialized_keys)

\* ArrayVec::retain(|ch| other.contains(ch))
retain(chars, other) == SelectSeq(chars, LAMBDA ch : \E n \in 1..Len(other) : other[n] = ch)

\* a dedup that removes nothing
dedup_nothing(v) == v

\* Vec::dedup: consecutive equal elements collapse to the first
dedup(v) ==
    LET kept == SelectSeq([k \in 1..Len(v) |-> k], LAMBDA k : k = 1 \/ v[k] # v[k - 1])
    IN [n \in 1..Len(kept) |-> v[kept[n]]]

\* `let new_passwords = matching_chars.iter().map(|ch| prefix + ch)`
new_passwords(password_prefix, matching_chars) ==
    LET RECURSIVE go(_, _)
        go(out, n) == IF n > Len(matching_chars) THEN out
                      ELSE go(Append(out, Append(password_prefix, matching_chars[n])), n + 1)
    IN go(<<>>, 1)

\* `for ed in eds_iter { .. }`: the fingerprints from the n-th on narrow
\* matching_chars; an empty vector makes the callback return at once
retain_others(fingerprints, password_block, matching_chars, n) ==
    LET RECURSIVE go(_, _)
        go(chars, k) ==
            IF chars = <<>> \/ k > Len(fingerprints) THEN chars
            ELSE go(retain(chars,
                           password_matches_unrolled(password_block, fingerprints[k], <<>>)),
                    k + 1)
    IN go(matching_chars, n)

\* the closure `callback` of crack_unrolled: the passwords it returns
crack_unrolled_callback(fingerprints, password_block) ==
    IF Len(fingerprints) = 0 THEN <<>>
    ELSE dedup(new_passwords(
                  password_block.password_prefix,
                  retain_others(fingerprints, password_block,
                                password_matches_unrolled(password_block, fingerprints[1], <<>>),
                                2)))

(***************************************************************************)
(* The state                                                               *)
(***************************************************************************)
VARIABLES
    opt,               \* Opt: alphabet, min_length, max_length, start_password, unroll, num_threads
    eds,               \* the fingerprints get_encryption_data returns
    pc,                \* per worker: where it is in for_each_password
    password_idx,      \* per worker: the candidate as alphabet indices
    password,          \* per worker: the candidate
    initialized_keys,  \* per worker: the key stack
    emitted,           \* per worker: the (password, keys) pairs handed to the callback so far
    block_counter,     \* per worker: block_counter of test_each_password_unrolled
    counter,           \* InfoData.counter
    found_passwords,   \* InfoData.found_passwords
    recent_password,   \* InfoData.recent_password
    first_found,       \* found_passwords at the end of the scalar run
    first_emitted,     \* emitted at the end of the scalar run
    schedule,          \* how the worker threads are scheduled: "in_turn" or "free"
    main_pc,           \* where run_with_info_thread is: "workers", "info", "returned", "unwound"
    info_pc,           \* the progress thread: "polling", "final", "exited", "failed"
    last_counter,      \* spawn_info_thread: last_counter
    printed,           \* the totals final_stats has printed
    input,             \* main.rs: the bytes std::fs::read returns
    stderr,            \* main.rs: what main has written with eprintln!
    exit_code,         \* the exit code of the process, -1 while it runs
    found_mutex,       \* the Mutex of found_passwords: <<"free">>, <<"info">> or <<"worker", w>>
    recent_mutex,      \* the Mutex of recent_password, likewise
    hits,              \* per worker: the hits of its callback not yet pushed
    kat_n,             \* test_three_letter_passwords: passwords tried so far
    kat_password,      \* test_three_letter_passwords: password
    kat_found,         \* test_three_letter_passwords: found_passwords
    table,             \* crc32_table: table
    probe_keys,        \* a key state the cipher primitives are applied to
    probe_in,          \* the last input applied to it
    probe_out,         \* what the primitive returned
    probe_n            \* how many times a primitive has been applied

enumVars == <<opt, eds, pc, password_idx, password, initialized_keys, emitted,
              block_counter, counter, found_passwords, recent_password, first_found,
              first_emitted>>

katVars == <<kat_n, kat_password, kat_found>>

probeVars == <<table, probe_keys, probe_in, probe_out, probe_n>>

threadVars == <<schedule, main_pc, info_pc, last_counter, printed>>

runVars == <<input, stderr, exit_code, found_mutex, recent_mutex, hits>>

vars == <<enumVars, katVars, probeVars, threadVars, runVars>>

(***************************************************************************)
(* The inputs the model is run on                                          *)
(***************************************************************************)
MaxLen == 3

MaxThreads == 3

\* custom:a, custom:ab, custom:abc
Alphabets == {<<97>>, <<97, 98>>, <<97, 98, 99>>}

\* fingerprints accepting, over a .. i: "ab"; "c" and "ab"; "aa" and "ab"; "b"
F1 == [encryption_header |-> <<221, 251, 61, 127, 119, 90, 175, 65, 144, 12, 225, 254>>,
       last_mod_file_time |-> 38130]

F2 == [encryption_header |-> <<119, 194, 33, 129, 224, 161, 86, 179, 150, 59, 198, 82>>,
       last_mod_file_time |-> 44875]

F3 == [encryption_header |-> <<69, 215, 34, 189, 106, 48, 141, 249, 100, 231, 209, 210>>,
       last_mod_file_time |-> 60160]

F4 == [encryption_header |-> <<234, 30, 48, 94, 135, 114, 157, 102, 1, 251, 107, 50>>,
       last_mod_file_time |-> 61553]

Archives == {<<F3>>, <<F2, F1>>, <<F3, F2>>, <<F4, F3>>}

Configs ==
    {[alphabet |-> a, min_length |-> lo, max_length |-> hi, start_password |-> NoStart,
      unroll |-> FALSE, num_threads |-> n] :
        a \in Alphabets, lo \in 0..MaxLen, hi \in 0..MaxLen, n \in 1..MaxThreads}

Workers == 0..(opt.num_threads - 1)

KatIdle == kat_n = 0 /\ kat_password = <<>> /\ kat_found = <<>>

ProbeIdle ==
    table = <<>> /\ probe_keys = InitialKeys /\ probe_in = 0 /\ probe_out = 0 /\ probe_n = 0

\* the archive has been read and parsed, main has written nothing, and the
\* callbacks are followed as single steps: no mutex is held between two steps
RunIdle ==
    /\ input = [readable |-> TRUE, bytes |-> <<>>]
    /\ stderr = <<>>
    /\ exit_code = -1
    /\ found_mutex = <<"free">>
    /\ recent_mutex = <<"free">>
    /\ hits = [w \in Workers |-> <<>>]

\* the progress thread has returned at its first handle_err (no terminal to
\* control) and the workers are run in turn: the workers are followed alone
WorkersAlone ==
    /\ schedule = "in_turn"
    /\ main_pc = "workers"
    /\ info_pc = "failed"
    /\ last_counter = 0
    /\ printed = <<>>
    /\ RunIdle

(***************************************************************************)
(* crack / crack_unrolled: the workers, run one after the other            *)
(***************************************************************************)
\* InfoData::new and the spawn of the workers
Spawned ==
    /\ pc = [w \in Workers |-> "start"]
    /\ password_idx = [w \in Workers |-> <<>>]
    /\ password = [w \in Workers |-> <<>>]
    /\ initialized_keys = [w \in Workers |-> <<>>]
    /\ emitted = [w \in Workers |-> <<>>]
    /\ block_counter = [w \in Workers |-> 0]
    /\ counter = 0
    /\ found_passwords = <<>>
    /\ recent_password = <<45>>

Init ==
    /\ opt \in {o \in Configs : o.min_length <= o.max_length}
    /\ eds \in Archives
    /\ Spawned
    /\ first_found = <<>>
    /\ first_emitted = <<>>
    /\ WorkersAlone
    /\ KatIdle
    /\ ProbeIdle

\* the schedule: the workers share nothing but the InfoData, and a worker's
\* enumeration does not read it, so under "in_turn" the threads are run one
\* after the other in the order they are spawned: worker w runs when the
\* workers before it are done.  Under "free" any worker takes the next step.
Turn(w) == schedule = "free" \/ \A v \in Workers : v < w => pc[v] = "done"

\* the indices of the initial candidate in the alphabet (-1: not in it)
InitialIdx(o) ==
    [n \in 1..Len(InitialPassword(o)) |-> position(o.alphabet, InitialPassword(o)[n])]

\* the enumerator state before the first advance
InitialEnum(o) ==
    [password_idx |-> InitialIdx(o),
     password |-> InitialPassword(o),
     initialized_keys |-> ExtendKeys(<<InitialKeys>>, InitialPassword(o))]

\* the enumerator state of worker w becomes e
SetEnum(w, e) ==
    /\ password_idx' = [password_idx EXCEPT ![w] = e.password_idx]
    /\ password' = [password EXCEPT ![w] = e.password]
    /\ initialized_keys' = [initialized_keys EXCEPT ![w] = e.initialized_keys]

\* for_each_password up to `loop`: the initial candidate, its indices, its keys
\* and the advance by the shard index, whose result is dropped
Start(w) ==
    /\ pc[w] = "start"
    /\ Turn(w)
    /\ IF \E n \in DOMAIN InitialIdx(EnumOpt(opt)) : InitialIdx(EnumOpt(opt))[n] = -1
       THEN /\ pc' = [pc EXCEPT ![w] = "panicked"]
            /\ UNCHANGED <<password_idx, password, initialized_keys>>
       ELSE \E r \in {add_offset(EnumOpt(opt), InitialEnum(EnumOpt(opt)), w)} :
               /\ SetEnum(w, r.e)
               /\ pc' = [pc EXCEPT ![w] = "extend"]
    /\ UNCHANGED <<opt, eds, emitted, block_counter, counter, found_passwords,
                   recent_password, first_found, first_emitted, katVars, probeVars,
                   threadVars, runVars>>

\* the head of `loop`: the key stack is extended to cover the candidate
Extend(w) ==
    /\ pc[w] = "extend"
    /\ Turn(w)
    /\ initialized_keys' = [initialized_keys EXCEPT ![w] = ExtendKeys(@, password[w])]
    /\ pc' = [pc EXCEPT ![w] = "callback"]
    /\ UNCHANGED <<opt, eds, password_idx, password, emitted, block_counter, counter,
                   found_passwords, recent_password, first_found, first_emitted, katVars, probeVars,
                   threadVars, runVars>>

\* how often a worker publishes its candidate: every RECENT_INTERVAL-th value of
\* the attempt counter (scalar), on block RECENT_BLOCKS of its own count (unrolled)
RECENT_INTERVAL == 100000

RECENT_BLOCKS == 100000

\* the callback with a load of the counter in place of the fetch_add
callback_without_count(info, fingerprints, pw, keys) ==
    [counter |-> info.counter,
     recent |-> IF info.counter % RECENT_INTERVAL = 0 THEN pw ELSE info.recent,
     found |-> IF crack_callback(fingerprints, keys) THEN Append(info.found, pw)
               ELSE info.found]

\* test_each_password: callback_with_info, on the InfoData (counter, found, recent)
callback_with_info(info, fingerprints, pw, keys) ==
    LET count == info.counter
    IN [counter |-> count + 1,
        recent |-> IF count % RECENT_INTERVAL = 0 THEN pw ELSE info.recent,
        found |-> IF crack_callback(fingerprints, keys) THEN Append(info.found, pw)
                  ELSE info.found]

\* a push of the block check can panic only if the padded alphabet is larger than
\* the capacity
BlockPanics(fingerprints, password_block) ==
    /\ 8 * Len(password_block.alphabet) > RESULT_CAPACITY
    /\ \E n \in 1..Len(fingerprints) : PushPanics(password_block, fingerprints[n], <<>>)

\* test_each_password_unrolled: callback_with_info; blocks is the worker's
\* block_counter
callback_with_info_unrolled(info, blocks, fingerprints, password_block, alphabet) ==
    [counter |-> info.counter + Len(alphabet),
     blocks |-> IF blocks = RECENT_BLOCKS THEN 0 ELSE blocks + 1,
     recent |-> IF blocks = RECENT_BLOCKS THEN Append(password_block.password_prefix, 45)
                ELSE info.recent,
     panics |-> BlockPanics(fingerprints, password_block),
     found |-> info.found \o crack_unrolled_callback(fingerprints, password_block)]

\* the InfoData as a record
Info == [counter |-> counter, recent |-> recent_password, found |-> found_passwords]

\* the enumerator state of worker w as a record
Enum(w) == [password_idx |-> password_idx[w], password |-> password[w],
            initialized_keys |-> initialized_keys[w]]

\* the keys of the whole candidate: initialized_keys[password.len()]
TopKeys(w) == initialized_keys[w][Len(password[w]) + 1]

\* the PasswordBlock test_each_password_unrolled builds for the candidate
Block(w) == [password_prefix |-> password[w],
             alphabet |-> chunked_alphabet(opt.alphabet),
             initialized_keys |-> TopKeys(w)]

\* `if add_offset(num_threads) { break; }`, unless the callback panicked
Advance(w, panics) ==
    IF panics
    THEN /\ pc' = [pc EXCEPT ![w] = "panicked"]
         /\ UNCHANGED <<password_idx, password, initialized_keys>>
    ELSE \E r \in {add_offset(EnumOpt(opt), Enum(w), opt.num_threads)} :
            /\ SetEnum(w, r.e)
            /\ pc' = [pc EXCEPT ![w] = IF r.finished THEN "done" ELSE "extend"]

\* one turn of `loop` after the extension: the callback, then the advance by
\* num_threads
Callback(w) ==
    /\ pc[w] = "callback"
    /\ Turn(w)
    /\ emitted' = [emitted EXCEPT ![w] = Append(@, [pw |-> password[w], keys |-> TopKeys(w)])]
    /\ IF opt.unroll
       THEN \E c \in {callback_with_info_unrolled(Info, block_counter[w], eds, Block(w),
                                                  opt.alphabet)} :
               /\ counter' = c.counter
               /\ block_counter' = [block_counter EXCEPT ![w] = c.blocks]
               /\ recent_password' = c.recent
               /\ found_passwords' = IF c.panics THEN found_passwords ELSE c.found
               /\ Advance(w, c.panics)
       ELSE \E c \in {callback_with_info(Info, eds, password[w], TopKeys(w))} :
               /\ counter' = c.counter
               /\ recent_password' = c.recent
               /\ found_passwords' = c.found
               /\ UNCHANGED block_counter
               /\ Advance(w, FALSE)
    /\ UNCHANGED <<opt, eds, first_found, first_emitted, katVars, probeVars, threadVars, runVars>>

\* every worker has returned: the threads are joined
AllDone == \A w \in Workers : pc[w] = "done"

\* the same options and archive once more, with --unroll (main.rs picks
\* crack_unrolled); the hits of the scalar run are kept for comparison
Rerun ==
    /\ AllDone
    /\ ~opt.unroll
    /\ opt' = [opt EXCEPT !.unroll = TRUE]
    /\ first_found' = found_passwords
    /\ first_emitted' = emitted
    /\ pc' = [w \in Workers |-> "start"]
    /\ password_idx' = [w \in Workers |-> <<>>]
    /\ password' = [w \in Workers |-> <<>>]
    /\ initialized_keys' = [w \in Workers |-> <<>>]
    /\ emitted' = [w \in Workers |-> <<>>]
    /\ block_counter' = [w \in Workers |-> 0]
    /\ counter' = 0
    /\ found_passwords' = <<>>
    /\ recent_password' = <<45>>
    /\ UNCHANGED <<eds, katVars, probeVars, threadVars, runVars>>

Next ==
    \/ \E w \in Workers : Start(w)
    \/ \E w \in Workers : Extend(w)
    \/ \E w \in Workers : Callback(w)
    \/ Rerun

Spec == Init /\ [][Next]_vars

\* the steps of worker w
Worker(w) == Start(w) \/ Extend(w) \/ Callback(w)

\* worker w exists and can take a step
Runnable(w) == w \in Workers /\ pc[w] \in {"start", "extend", "callback"} /\ Turn(w)

\* a thread that has been spawned runs: worker w is not runnable for ever
\* without taking a step (weak fairness of its steps, with the enabling
\* condition written out)
WorkerFair(w) == []<>(~Runnable(w)) \/ []<><<w \in Workers /\ Worker(w)>>_vars

(***************************************************************************)
(* One worker with --start-password                                        *)
(***************************************************************************)
\* the strings over an alphabet with a length in lo .. hi
Strings(alphabet, lo, hi) ==
    UNION {[1..len -> {alphabet[n] : n \in 1..Len(alphabet)}] : len \in lo..hi}

\* --start-password s with min_length <= |s| <= max_length, over a and ab
StartConfigs ==
    {[alphabet |-> a, min_length |-> lo, max_length |-> hi,
      start_password |-> [is_some |-> TRUE, pw |-> s],
      unroll |-> FALSE, num_threads |-> 1] :
        a \in {<<97>>, <<97, 98>>}, lo \in 0..MaxLen, hi \in 0..MaxLen,
        s \in Strings(<<97, 98>>, 0, MaxLen)}

InitStart ==
    /\ opt \in {o \in StartConfigs :
                  /\ o.min_length <= Len(o.start_password.pw)
                  /\ Len(o.start_password.pw) <= o.max_length
                  /\ \A n \in 1..Len(o.start_password.pw) :
                         position(o.alphabet, o.start_password.pw[n]) >= 0}
    /\ eds = <<F3>>
    /\ Spawned
    /\ first_found = <<>>
    /\ first_emitted = <<>>
    /\ WorkersAlone
    /\ KatIdle
    /\ ProbeIdle

\* the worker runs, and the second run is started when the first is over
SpecStart == InitStart /\ [][Next]_vars /\ WorkerFair(0) /\ WF_vars(Rerun)

(***************************************************************************)
(* One worker on alphabets of one and of two chunks                        *)
(***************************************************************************)
\* the longest password of these runs
BlockLen == 2

\* custom:abc, custom:abcdefgh, custom:abcdefghi
BlockAlphabets ==
    {<<97, 98, 99>>,
     <<97, 98, 99, 100, 101, 102, 103, 104>>,
     <<97, 98, 99, 100, 101, 102, 103, 104, 105>>}

BlockConfigs ==
    {[alphabet |-> a, min_length |-> lo, max_length |-> hi, start_password |-> NoStart,
      unroll |-> FALSE, num_threads |-> 1] :
        a \in BlockAlphabets, lo \in 1..BlockLen, hi \in 1..BlockLen}

InitBlocks ==
    /\ opt \in {o \in BlockConfigs : o.min_length <= o.max_length}
    /\ eds = <<F3>>
    /\ Spawned
    /\ first_found = <<>>
    /\ first_emitted = <<>>
    /\ WorkersAlone
    /\ KatIdle
    /\ ProbeIdle

SpecBlocks == InitBlocks /\ [][Next]_vars

(***************************************************************************)
(* info.rs: run_with_info_thread, the progress thread and the workers as   *)
(* threads                                                                 *)
(***************************************************************************)
\* the longest password and the most threads of the runs followed thread by
\* thread
ThreadLen == 1

ThreadCount == 2

ThreadConfigs ==
    {[alphabet |-> a, min_length |-> lo, max_length |-> hi, start_password |-> NoStart,
      unroll |-> u, num_threads |-> n] :
        a \in {<<97>>, <<97, 98>>}, lo \in 0..ThreadLen, hi \in 0..ThreadLen,
        u \in BOOLEAN, n \in 1..ThreadCount}

\* run_with_info_thread up to the spawn of the workers: last_counter is read
\* before any worker exists
InitThreads ==
    /\ opt \in {o \in ThreadConfigs : o.min_length <= o.max_length}
    /\ eds = <<F3>>
    /\ Spawned
    /\ first_found = <<>>
    /\ first_emitted = <<>>
    /\ schedule = "free"
    /\ main_pc = "workers"
    /\ info_pc = "polling"
    /\ last_counter = counter
    /\ printed = <<>>
    /\ RunIdle
    /\ KatIdle
    /\ ProbeIdle

\* a turn of the loop that goes on whatever it reads
Poll_without_break ==
    /\ info_pc = "polling"
    /\ last_counter' = counter
    /\ UNCHANGED <<enumVars, katVars, probeVars, runVars, schedule, main_pc, info_pc, printed>>

\* one turn of the loop of the progress thread after the sleep: the counter is
\* read and compared with the reading before
Poll ==
    /\ info_pc = "polling"
    /\ IF counter = last_counter
       THEN info_pc' = "final" /\ UNCHANGED last_counter
       ELSE last_counter' = counter /\ UNCHANGED info_pc
    /\ UNCHANGED <<enumVars, katVars, probeVars, runVars, schedule, main_pc, printed>>

\* handle_err! or the logfile error: the progress thread returns without
\* final_stats
InfoFails ==
    /\ info_pc = "polling"
    /\ info_pc' = "failed"
    /\ UNCHANGED <<enumVars, katVars, probeVars, runVars, schedule, main_pc, last_counter, printed>>

\* after the loop: restore_terminal and final_stats, which loads the counter
\* once more
FinalStats ==
    /\ info_pc = "final"
    /\ printed' = Append(printed, counter)
    /\ info_pc' = "exited"
    /\ UNCHANGED <<enumVars, katVars, probeVars, runVars, schedule, main_pc, last_counter>>

\* `threads.into_iter().for_each(|join_handle| ..)`: every worker is joined; a
\* worker that panicked makes the main thread unwind
JoinWorkers ==
    /\ main_pc = "workers"
    /\ \A w \in Workers : pc[w] \in {"done", "panicked"}
    /\ main_pc' = IF AllDone THEN "info" ELSE "unwound"
    /\ UNCHANGED <<enumVars, katVars, probeVars, runVars, schedule, info_pc, last_counter, printed>>

\* `join_handle.join()` on the progress thread, then the return
JoinInfo ==
    /\ main_pc = "info"
    /\ info_pc \in {"exited", "failed"}
    /\ main_pc' = "returned"
    /\ UNCHANGED <<enumVars, katVars, probeVars, runVars, schedule, info_pc, last_counter, printed>>

NextThreads ==
    \/ \E w \in Workers : Worker(w)
    \/ Poll
    \/ InfoFails
    \/ FinalStats
    \/ JoinWorkers
    \/ JoinInfo

\* every thread that can take a step takes one in the end; the terminal is not
\* bound to fail
SpecThreads ==
    /\ InitThreads
    /\ [][NextThreads]_vars
    /\ \A w \in 0..(ThreadCount - 1) : WorkerFair(w)
    /\ WF_vars(Poll)
    /\ WF_vars(FinalStats)
    /\ WF_vars(JoinWorkers)
    /\ WF_vars(JoinInfo)

(***************************************************************************)
(* The callbacks and the progress thread, one mutex operation at a time    *)
(***************************************************************************)
\* passwords of one length over b and over ab, which both hold the password b
\* the fingerprint accepts
LockConfigs ==
    {[alphabet |-> a, min_length |-> len, max_length |-> len, start_password |-> NoStart,
      unroll |-> u, num_threads |-> n] :
        a \in {<<98>>, <<97, 98>>}, len \in 0..ThreadLen, u \in BOOLEAN,
        n \in 1..ThreadCount}

InitLocks ==
    /\ opt \in LockConfigs
    /\ eds = <<F4>>
    /\ Spawned
    /\ first_found = <<>>
    /\ first_emitted = <<>>
    /\ schedule = "free"
    /\ main_pc = "workers"
    /\ info_pc = "polling"
    /\ last_counter = counter
    /\ printed = <<>>
    /\ RunIdle
    /\ KatIdle
    /\ ProbeIdle

\* callback_with_info up to the test of the count: the fetch_add on the
\* counter, and in unrolled mode the fetch_add on block_counter
Count(w) ==
    /\ pc[w] = "callback"
    /\ emitted' = [emitted EXCEPT ![w] = Append(@, [pw |-> password[w], keys |-> TopKeys(w)])]
    /\ counter' = counter + (IF opt.unroll THEN Len(opt.alphabet) ELSE 1)
    /\ block_counter' = [block_counter EXCEPT ![w] = IF opt.unroll THEN @ + 1 ELSE @]
    /\ pc' = [pc EXCEPT ![w] =
                 IF (opt.unroll /\ block_counter[w] = RECENT_BLOCKS)
                        \/ (~opt.unroll /\ counter % RECENT_INTERVAL = 0)
                 THEN "lock_recent" ELSE "check"]
    /\ UNCHANGED <<opt, eds, password_idx, password, initialized_keys, found_passwords,
                   recent_password, first_found, first_emitted, katVars, probeVars,
                   threadVars, runVars>>

\* `info_data.recent_password.lock().unwrap()`
LockRecent(w) ==
    /\ pc[w] = "lock_recent"
    /\ recent_mutex = <<"free">>
    /\ recent_mutex' = <<"worker", w>>
    /\ pc' = [pc EXCEPT ![w] = "publish"]
    /\ UNCHANGED <<opt, eds, password_idx, password, initialized_keys, emitted, block_counter,
                   counter, found_passwords, recent_password, first_found, first_emitted,
                   katVars, probeVars, threadVars, input, stderr, exit_code, found_mutex, hits>>

\* the candidate is written and the guard kept
Publish_keeping(w) ==
    /\ pc[w] = "publish"
    /\ recent_password' = IF opt.unroll THEN Append(password[w], 45) ELSE password[w]
    /\ block_counter' = [block_counter EXCEPT ![w] = IF opt.unroll THEN 0 ELSE @]
    /\ pc' = [pc EXCEPT ![w] = "check"]
    /\ UNCHANGED <<opt, eds, password_idx, password, initialized_keys, emitted, counter,
                   found_passwords, first_found, first_emitted, katVars, probeVars,
                   threadVars, runVars>>

\* the candidate is written and the guard dropped at the end of the `if`
Publish(w) ==
    /\ pc[w] = "publish"
    /\ recent_password' = IF opt.unroll THEN Append(password[w], 45) ELSE password[w]
    /\ block_counter' = [block_counter EXCEPT ![w] = IF opt.unroll THEN 0 ELSE @]
    /\ recent_mutex' = <<"free">>
    /\ pc' = [pc EXCEPT ![w] = "check"]
    /\ UNCHANGED <<opt, eds, password_idx, password, initialized_keys, emitted, counter,
                   found_passwords, first_found, first_emitted, katVars, probeVars,
                   threadVars, input, stderr, exit_code, found_mutex, hits>>

\* the hits of the candidate: `predicate(initialized_keys)` or
\* `block_predicate(password_block)`; without a hit the callback returns and
\* the enumerator advances
Check(w) ==
    /\ pc[w] = "check"
    /\ \E h \in {IF opt.unroll THEN crack_unrolled_callback(eds, Block(w))
                 ELSE IF crack_callback(eds, TopKeys(w)) THEN <<password[w]>> ELSE <<>>} :
          IF h = <<>> \/ (opt.unroll /\ BlockPanics(eds, Block(w)))
          THEN Advance(w, opt.unroll /\ BlockPanics(eds, Block(w))) /\ UNCHANGED hits
          ELSE /\ hits' = [hits EXCEPT ![w] = h]
               /\ pc' = [pc EXCEPT ![w] = "lock_found"]
               /\ UNCHANGED <<password_idx, password, initialized_keys>>
    /\ UNCHANGED <<opt, eds, emitted, block_counter, counter, found_passwords,
                   recent_password, first_found, first_emitted, katVars, probeVars,
                   threadVars, input, stderr, exit_code, found_mutex, recent_mutex>>

\* `info_data.found_passwords.lock().unwrap()`
LockFound(w) ==
    /\ pc[w] = "lock_found"
    /\ found_mutex = <<"free">>
    /\ found_mutex' = <<"worker", w>>
    /\ pc' = [pc EXCEPT ![w] = "push"]
    /\ UNCHANGED <<opt, eds, password_idx, password, initialized_keys, emitted, block_counter,
                   counter, found_passwords, recent_password, first_found, first_emitted,
                   katVars, probeVars, threadVars, input, stderr, exit_code, recent_mutex,
                   hits>>

\* `found_passwords.push(s)` and the drop of the guard; after the last hit the
\* callback returns and the enumerator advances
Push(w) ==
    /\ pc[w] = "push"
    /\ found_passwords' = Append(found_passwords, Head(hits[w]))
    /\ hits' = [hits EXCEPT ![w] = Tail(@)]
    /\ found_mutex' = <<"free">>
    /\ IF Len(hits[w]) > 1
       THEN /\ pc' = [pc EXCEPT ![w] = "lock_found"]
            /\ UNCHANGED <<password_idx, password, initialized_keys>>
       ELSE Advance(w, FALSE)
    /\ UNCHANGED <<opt, eds, emitted, block_counter, counter, recent_password, first_found,
                   first_emitted, katVars, probeVars, threadVars, input, stderr, exit_code,
                   recent_mutex>>

\* the steps of worker w
LockedWorker(w) ==
    \/ Start(w) \/ Extend(w) \/ Count(w) \/ LockRecent(w) \/ Publish(w)
    \/ Check(w) \/ LockFound(w) \/ Push(w)

\* the progress thread after its sleep: the counter is read and compared with
\* the reading before
PollCounter ==
    /\ info_pc = "polling"
    /\ IF counter = last_counter
       THEN info_pc' = "final" /\ UNCHANGED last_counter
       ELSE last_counter' = counter /\ info_pc' = "lock_found"
    /\ UNCHANGED <<enumVars, katVars, probeVars, runVars, schedule, main_pc, printed>>

\* `let found_passwords = data.found_passwords.lock().unwrap()`
InfoLockFound ==
    /\ info_pc = "lock_found"
    /\ found_mutex = <<"free">>
    /\ found_mutex' = <<"info">>
    /\ info_pc' = "lock_recent"
    /\ UNCHANGED <<enumVars, katVars, probeVars, schedule, main_pc, last_counter, printed,
                   input, stderr, exit_code, recent_mutex, hits>>

\* `let recent_password = data.recent_password.lock().unwrap()`
InfoLockRecent ==
    /\ info_pc = "lock_recent"
    /\ recent_mutex = <<"free">>
    /\ recent_mutex' = <<"info">>
    /\ info_pc' = "printing"
    /\ UNCHANGED <<enumVars, katVars, probeVars, schedule, main_pc, last_counter, printed,
                   input, stderr, exit_code, found_mutex, hits>>

\* the rest of the turn of the loop: the status lines, the logfile; both guards
\* are dropped at the end of the loop body
InfoPrints ==
    /\ info_pc = "printing"
    /\ found_mutex' = <<"free">>
    /\ recent_mutex' = <<"free">>
    /\ info_pc' = "polling"
    /\ UNCHANGED <<enumVars, katVars, probeVars, schedule, main_pc, last_counter, printed,
                   input, stderr, exit_code, hits>>

\* a return that leaves both mutexes locked
InfoFailsHolding_locked ==
    /\ info_pc = "printing"
    /\ info_pc' = "failed"
    /\ UNCHANGED <<enumVars, katVars, probeVars, runVars, schedule, main_pc, last_counter,
                   printed>>

\* the logfile cannot be written, or RestorePosition fails: the closure
\* returns, which drops both guards
InfoFailsHolding ==
    /\ info_pc = "printing"
    /\ found_mutex' = <<"free">>
    /\ recent_mutex' = <<"free">>
    /\ info_pc' = "failed"
    /\ UNCHANGED <<enumVars, katVars, probeVars, schedule, main_pc, last_counter, printed,
                   input, stderr, exit_code, hits>>

NextLocks ==
    \/ \E w \in Workers : LockedWorker(w)
    \/ PollCounter
    \/ InfoLockFound
    \/ InfoLockRecent
    \/ InfoPrints
    \/ InfoFailsHolding
    \/ InfoFails
    \/ FinalStats
    \/ JoinWorkers
    \/ JoinInfo

\* worker w exists and can take a step: it is not done, and the mutex it is
\* about to lock is free
RunnableLocked(w) ==
    /\ w \in Workers
    /\ \/ pc[w] \in {"start", "extend", "callback", "publish", "check", "push"}
       \/ pc[w] = "lock_recent" /\ recent_mutex = <<"free">>
       \/ pc[w] = "lock_found" /\ found_mutex = <<"free">>

\* every thread that can take a step for ever takes one; nothing makes the
\* terminal or the logfile fail
SpecLocks ==
    /\ InitLocks
    /\ [][NextLocks]_vars
    /\ \A w \in 0..(ThreadCount - 1) :
           []<>(~RunnableLocked(w)) \/ []<><<w \in Workers /\ LockedWorker(w)>>_vars
    /\ WF_vars(PollCounter)
    /\ WF_vars(InfoLockFound)
    /\ WF_vars(InfoLockRecent)
    /\ WF_vars(InfoPrints)
    /\ WF_vars(FinalStats)
    /\ WF_vars(JoinWorkers)
    /\ WF_vars(JoinInfo)

(***************************************************************************)
(* zipfile.rs: the records of an archive                                   *)
(***************************************************************************)
\* le_u16 at offset pos (0-based) of the input
le_u16(bytes, pos) == bytes[pos + 1] + 256 * bytes[pos + 2]

\* le_u32 as a length to take: a value of 2^16 or more stands for "longer than
\* any input of the model"
le_u32(bytes, pos) ==
    IF bytes[pos + 3] = 0 /\ bytes[pos + 4] = 0 THEN le_u16(bytes, pos) ELSE 65536

\* tag("PK\x.."): the four bytes at pos are P, K and the two of the signature
tag(bytes, pos, signature) ==
    /\ pos + 4 <= Len(bytes)
    /\ SubSeq(bytes, pos + 1, pos + 4) = <<80, 75>> \o signature

\* a signature, the fixed fields up to `fixed` bytes, then one take() for each
\* le_u16 length, read at the offsets `lengths`: the position after the record,
\* or -1 for Err::Error (the input ends before the record does)
take_record(bytes, pos, signature, fixed, lengths) ==
    LET RECURSIVE takes(_, _)
        takes(at, n) ==
            IF n > Len(lengths) THEN at
            ELSE IF at + le_u16(bytes, pos + lengths[n]) > Len(bytes) THEN -1
                 ELSE takes(at + le_u16(bytes, pos + lengths[n]), n + 1)
    IN IF tag(bytes, pos, signature) /\ pos + fixed <= Len(bytes)
       THEN takes(pos + fixed, 1)
       ELSE -1

parse_local_file_header(bytes, pos) == take_record(bytes, pos, <<3, 4>>, 30, <<26, 28>>)

parse_data_descriptor(bytes, pos) == take_record(bytes, pos, <<7, 8>>, 16, <<>>)

parse_central_directory_file_header(bytes, pos) ==
    take_record(bytes, pos, <<1, 2>>, 46, <<28, 30, 32>>)

parse_digital_signature(bytes, pos) == take_record(bytes, pos, <<7, 8>>, 6, <<4>>)

parse_end_of_central_directory_record(bytes, pos) ==
    take_record(bytes, pos, <<5, 6>>, 22, <<20>>)

\* parse_local_file from the end of the header on, for an encrypted entry:
\* the encryption header, compressed_size - 12 bytes of data and the data
\* descriptor.  `compressed_size -= 12` below 12 overflows: a panic where
\* overflow is checked, a length no input has where it wraps.
encrypted_local_file(bytes, pos, data, compressed_size, last_mod_file_time) ==
    IF compressed_size < 12
    THEN [pos |-> -1, overflow |-> TRUE]
    ELSE IF data + compressed_size > Len(bytes)
    THEN [pos |-> -1, overflow |-> FALSE]
    ELSE [pos |-> parse_data_descriptor(bytes, data + compressed_size),
          overflow |-> FALSE,
          record |-> [is_local_file |-> TRUE,
                      encryption_header |->
                          [is_some |-> TRUE, bytes |-> SubSeq(bytes, data + 1, data + 12)],
                      last_mod_file_time |-> last_mod_file_time]]

\* parse_local_file: the header, then the entry as its bit 0 of the
\* general purpose flag says
parse_local_file(bytes, pos) ==
    LET data == parse_local_file_header(bytes, pos)
    IN IF data = -1 THEN [pos |-> -1, overflow |-> FALSE]
       ELSE IF bytes[pos + 7] % 2 = 1
       THEN encrypted_local_file(bytes, pos, data, le_u32(bytes, pos + 18),
                                 le_u16(bytes, pos + 10))
       ELSE IF data + le_u32(bytes, pos + 18) > Len(bytes)
       THEN [pos |-> -1, overflow |-> FALSE]
       ELSE [pos |-> data + le_u32(bytes, pos + 18),
             overflow |-> FALSE,
             record |-> [is_local_file |-> TRUE,
                         encryption_header |-> [is_some |-> FALSE, bytes |-> <<>>],
                         last_mod_file_time |-> le_u16(bytes, pos + 10)]]

\* a record that is not a local file: only its place in the list is kept
OtherRecord ==
    [is_local_file |-> FALSE, encryption_header |-> [is_some |-> FALSE, bytes |-> <<>>],
     last_mod_file_time |-> 0]

\* `alt((parse_local_file, parse_central_directory_file_header,
\* parse_digital_signature, parse_end_of_central_directory_record))`: the first
\* alternative that does not fail
parse_record(bytes, pos) ==
    LET local_file == parse_local_file(bytes, pos)
    IN IF local_file.pos # -1 \/ local_file.overflow THEN local_file
       ELSE IF parse_central_directory_file_header(bytes, pos) # -1
       THEN [pos |-> parse_central_directory_file_header(bytes, pos), overflow |-> FALSE,
             record |-> OtherRecord]
       ELSE IF parse_digital_signature(bytes, pos) # -1
       THEN [pos |-> parse_digital_signature(bytes, pos), overflow |-> FALSE,
             record |-> OtherRecord]
       ELSE [pos |-> parse_end_of_central_directory_record(bytes, pos), overflow |-> FALSE,
             record |-> OtherRecord]

\* parse: `many0(parse_record)` gathers records until parse_record fails with
\* Err::Error and then returns Ok with what was gathered and the rest of the
\* input; these parsers fail in no other way, so the only other outcome is the
\* overflow of parse_local_file.  wraps: whether that overflow wraps.
parse(bytes, wraps) ==
    LET RECURSIVE many0(_, _)
        many0(records, pos) ==
            LET r == parse_record(bytes, pos)
            IN IF r.overflow /\ ~wraps THEN [ok |-> FALSE, panics |-> TRUE]
               ELSE IF r.pos = -1
               THEN [ok |-> TRUE, panics |-> FALSE, records |-> records,
                     rest |-> SubSeq(bytes, pos + 1, Len(bytes))]
               ELSE many0(Append(records, r.record), r.pos)
    IN many0(<<>>, 0)

\* get_encryption_data: the fingerprint of every local file with an encryption
\* header, in the order of the records
get_encryption_data(zipfile) ==
    LET RECURSIVE go(_, _)
        go(out, n) ==
            IF n > Len(zipfile) THEN out
            ELSE IF zipfile[n].is_local_file /\ zipfile[n].encryption_header.is_some
                 THEN go(Append(out, [encryption_header |-> zipfile[n].encryption_header.bytes,
                                      last_mod_file_time |-> zipfile[n].last_mod_file_time]),
                         n + 1)
                 ELSE go(out, n + 1)
    IN go(<<>>, 1)

(***************************************************************************)
(* main.rs: main and result_main                                           *)
(***************************************************************************)
\* the longest max_length of the runs followed from main on
MainLen == 1

\* the end of central directory record of an archive without comment
Eocd == <<80, 75, 5, 6>> \o [n \in 1..18 |-> 0]

\* a local file: flag, last_mod_file_time of F3, compressed_size, the name "f"
LocalFileBytes(flag, compressed_size) ==
    <<80, 75, 3, 4, 20, 0, flag, 0, 0, 0>> \o to_le_bytes(F3.last_mod_file_time)
        \o <<0, 0, 0, 0, 0, 0, compressed_size, 0, 0, 0, 1, 0, 0, 0, 1, 0, 0, 0, 102>>

\* the entry of F3: encrypted, the encryption header, one byte of data and the
\* data descriptor
EncryptedEntry ==
    LocalFileBytes(1, 13) \o F3.encryption_header \o <<7>>
        \o <<80, 75, 7, 8>> \o [n \in 1..12 |-> 0]

\* the files main is run on: an archive with the entry of F3; one without any
\* entry; the first with three more bytes; the first cut short in its data
\* descriptor; three bytes that start no record; an entry whose compressed_size
\* is below 12; an empty file; and a path that cannot be read
ArchiveFiles ==
    {[readable |-> TRUE, bytes |-> b] :
        b \in {EncryptedEntry \o Eocd,
               Eocd,
               EncryptedEntry \o Eocd \o <<0, 1, 2>>,
               SubSeq(EncryptedEntry, 1, Len(EncryptedEntry) - 1),
               <<0, 1, 2>>,
               LocalFileBytes(1, 5) \o <<1, 2, 3, 4, 5>> \o Eocd,
               <<>>}}
        \cup {[readable |-> FALSE, bytes |-> <<>>]}

\* the options structopt accepts: it checks no relation between the lengths
MainConfigs ==
    {[alphabet |-> a, min_length |-> lo, max_length |-> hi, start_password |-> NoStart,
      unroll |-> u, num_threads |-> n] :
        a \in {<<97>>, <<97, 98>>}, lo \in 0..MainLen, hi \in 0..MainLen,
        u \in BOOLEAN, n \in 1..ThreadCount}

\* result_main after Opt::from_args: nothing is read, no thread exists
InitMain ==
    /\ opt \in MainConfigs
    /\ input \in ArchiveFiles
    /\ eds = <<>>
    /\ pc = [w \in Workers |-> "unborn"]
    /\ password_idx = [w \in Workers |-> <<>>]
    /\ password = [w \in Workers |-> <<>>]
    /\ initialized_keys = [w \in Workers |-> <<>>]
    /\ emitted = [w \in Workers |-> <<>>]
    /\ block_counter = [w \in Workers |-> 0]
    /\ counter = 0
    /\ found_passwords = <<>>
    /\ recent_password = <<45>>
    /\ first_found = <<>>
    /\ first_emitted = <<>>
    /\ schedule = "in_turn"
    /\ main_pc = "read"
    /\ info_pc = "unborn"
    /\ last_counter = 0
    /\ printed = <<>>
    /\ stderr = <<>>
    /\ exit_code = -1
    /\ found_mutex = <<"free">>
    /\ recent_mutex = <<"free">>
    /\ hits = [w \in Workers |-> <<>>]
    /\ KatIdle
    /\ ProbeIdle

\* main: `Err(e) => eprintln!("{}", e)`, and main returns
PrintError(e) ==
    /\ stderr' = Append(stderr, e)
    /\ exit_code' = 0
    /\ main_pc' = "exited"

\* `let input = std::fs::read(&opt.input)?`
ReadInput ==
    /\ main_pc = "read"
    /\ IF input.readable
       THEN main_pc' = "parse" /\ UNCHANGED <<stderr, exit_code>>
       ELSE PrintError("No such file or directory")
    /\ UNCHANGED <<enumVars, katVars, probeVars, schedule, info_pc, last_counter, printed,
                   input, found_mutex, recent_mutex, hits>>

\* result_main from zipfile::parse on, crack or crack_unrolled up to the spawn
\* of the workers: get_encryption_data, InfoData::new, spawn_info_thread and
\* the thread::spawn of every worker
ParseInput ==
    /\ main_pc = "parse"
    /\ \E wraps \in BOOLEAN : \E parsed \in {parse(input.bytes, wraps)} :
          IF parsed.panics
          THEN /\ exit_code' = 101
               /\ main_pc' = "exited"
               /\ UNCHANGED <<eds, pc, info_pc, stderr>>
          ELSE IF ~parsed.ok
          THEN /\ PrintError("Parsing Error")
               /\ UNCHANGED <<eds, pc, info_pc>>
          ELSE /\ eds' = get_encryption_data(parsed.records)
               /\ pc' = [w \in Workers |-> "start"]
               /\ info_pc' = "polling"
               /\ main_pc' = "workers"
               /\ UNCHANGED <<stderr, exit_code>>
    /\ UNCHANGED <<opt, password_idx, password, initialized_keys, emitted, block_counter,
                   counter, found_passwords, recent_password, first_found, first_emitted,
                   katVars, probeVars, schedule, last_counter, printed, input, found_mutex,
                   recent_mutex, hits>>

\* main after result_main returned Ok, or the panic carried over from a worker
MainReturns ==
    /\ main_pc \in {"returned", "unwound"}
    /\ exit_code' = IF main_pc = "returned" THEN 0 ELSE 101
    /\ main_pc' = "exited"
    /\ UNCHANGED <<enumVars, katVars, probeVars, schedule, info_pc, last_counter, printed,
                   input, stderr, found_mutex, recent_mutex, hits>>

\* the workers are followed while their candidates are no longer than MainLen + 1
NextMain ==
    \/ ReadInput
    \/ ParseInput
    \/ \E w \in Workers : Len(password[w]) <= MainLen + 1 /\ Worker(w)
    \/ Poll
    \/ InfoFails
    \/ FinalStats
    \/ JoinWorkers
    \/ JoinInfo
    \/ MainReturns

SpecMain == InitMain /\ [][NextMain]_vars

(***************************************************************************)
(* The cipher primitives on their own                                      *)
(***************************************************************************)
\* no search is running
EnumIdle ==
    /\ opt = [alphabet |-> <<97>>, min_length |-> 0, max_length |-> 0,
              start_password |-> NoStart, unroll |-> FALSE, num_threads |-> 1]
    /\ eds = <<>>
    /\ Spawned
    /\ first_found = <<>>
    /\ first_emitted = <<>>
    /\ WorkersAlone

\* how many calls in a row a primitive is followed for
MaxProbes == 3

\* the bytes the primitives are applied to
ProbeBytes == {0, 1, 97, 255}

\* the key states update_keys is started from: the initial constants, all
\* zeros and all ones
ProbeSeeds ==
    {InitialKeys,
     <<ToWord(0), ToWord(0), ToWord(0)>>,
     <<<<255, 255, 255, 255>>, <<255, 255, 255, 255>>, <<255, 255, 255, 255>>>>}

InitUpdateKeys ==
    /\ EnumIdle /\ KatIdle
    /\ table = <<>>
    /\ probe_keys \in ProbeSeeds
    /\ probe_in = 0
    /\ probe_out = probe_keys
    /\ probe_n = 0

\* update_keys(&mut keys, c) on the keys the call before left
ApplyUpdateKeys ==
    /\ probe_n < MaxProbes
    /\ \E c \in ProbeBytes :
           /\ probe_in' = c
           /\ probe_out' = update_keys(probe_out, c)
    /\ probe_keys' = probe_out
    /\ probe_n' = probe_n + 1
    /\ UNCHANGED <<enumVars, threadVars, runVars, katVars, table>>

NextUpdateKeys == ApplyUpdateKeys

SpecUpdateKeys == InitUpdateKeys /\ [][NextUpdateKeys]_vars

\* the values of key2 decrypt_byte is applied to: every second byte, the two
\* upper bytes all zeros or all ones; the low byte is stepped through
InitDecryptByte ==
    /\ EnumIdle /\ KatIdle
    /\ table = <<>>
    /\ probe_keys \in {<<ToWord(0), ToWord(0), <<0, hi, up, up>>>> : hi \in Byte, up \in {0, 255}}
    /\ probe_in = 0
    /\ probe_out = 0
    /\ probe_n = 0

\* decrypt_byte(key2) for the next low byte of key2
ApplyDecryptByte ==
    /\ probe_n \in Byte
    /\ probe_keys' = [probe_keys EXCEPT ![3][1] = probe_n]
    /\ probe_in' = probe_n
    /\ probe_out' = decrypt_byte([probe_keys[3] EXCEPT ![1] = probe_n])
    /\ probe_n' = probe_n + 1
    /\ UNCHANGED <<enumVars, threadVars, runVars, katVars, table>>

NextDecryptByte == ApplyDecryptByte

SpecDecryptByte == InitDecryptByte /\ [][NextDecryptByte]_vars

InitCrcTable == EnumIdle /\ KatIdle /\ ProbeIdle

\* one turn of the loop of crc32_table: table[i] = crc32_byte(i as u8); the
\* variable holds the entries written so far
FillTable ==
    /\ Len(table) < 256
    /\ table' = Append(table, crc32_byte(Len(table)))
    /\ UNCHANGED <<enumVars, threadVars, runVars, katVars, probe_keys, probe_in, probe_out, probe_n>>

\* crc32(crc, byte), crc the first word of the initial constants or what the
\* call before returned
ApplyCrc32 ==
    /\ Len(table) = 256
    /\ probe_n < MaxProbes
    /\ \E crc \in {IF probe_n = 0 THEN probe_keys[1] ELSE probe_out} :
       \E byte \in ProbeBytes :
           /\ probe_keys' = [probe_keys EXCEPT ![1] = crc]
           /\ probe_in' = byte
           /\ probe_out' = crc32(crc, byte)
    /\ probe_n' = probe_n + 1
    /\ UNCHANGED <<enumVars, threadVars, runVars, katVars, table>>

NextCrcTable == FillTable \/ ApplyCrc32

SpecCrcTable == InitCrcTable /\ [][NextCrcTable]_vars

(***************************************************************************)
(* The eight-lane primitives on their own                                  *)
(***************************************************************************)
\* [[u32; 8]; 3] from the keys of the eight lanes
KeysOfLanes(lane_keys) ==
    <<<<lane_keys[1][1], lane_keys[2][1], lane_keys[3][1], lane_keys[4][1],
        lane_keys[5][1], lane_keys[6][1], lane_keys[7][1], lane_keys[8][1]>>,
      <<lane_keys[1][2], lane_keys[2][2], lane_keys[3][2], lane_keys[4][2],
        lane_keys[5][2], lane_keys[6][2], lane_keys[7][2], lane_keys[8][2]>>,
      <<lane_keys[1][3], lane_keys[2][3], lane_keys[3][3], lane_keys[4][3],
        lane_keys[5][3], lane_keys[6][3], lane_keys[7][3], lane_keys[8][3]>>>>

\* the keys of one lane of a [[u32; 8]; 3]
LaneKeys(keys_chunk, l) == <<keys_chunk[1][l], keys_chunk[2][l], keys_chunk[3][l]>>

\* the eight-lane states update_keys_chunked is started from: the initial
\* constants in every lane, and two states whose lanes all differ
LaneSeeds ==
    {KeysChunk(InitialKeys),
     KeysOfLanes([l \in 1..8 |-> update_keys(InitialKeys, 96 + l)]),
     KeysOfLanes([l \in 1..8 |->
         <<<<l, 255 - l, 0, 16 * l>>, <<255, 255, 255, 31 * l>>, <<17 * l, l, 255, 0>>>>])}

\* the [u8; 8] the state is updated with
LaneBytes ==
    {<<97, 97, 97, 97, 97, 97, 97, 97>>,
     <<97, 98, 99, 100, 101, 102, 103, 104>>,
     <<0, 255, 0, 255, 1, 254, 1, 254>>,
     <<1, 2, 4, 8, 16, 32, 64, 128>>}

InitLanes ==
    /\ EnumIdle /\ KatIdle
    /\ table = <<>>
    /\ probe_keys \in LaneSeeds
    /\ probe_in = <<0, 0, 0, 0, 0, 0, 0, 0>>
    /\ probe_out = [keys |-> probe_keys, bytes |-> decrypt_byte_chunked(probe_keys[3])]
    /\ probe_n = 0

\* update_keys_chunked(&mut keys, c) on the keys the call before left, then
\* decrypt_byte_chunked(keys[2])
ApplyLanes ==
    /\ probe_n < MaxProbes
    /\ \E c \in LaneBytes :
       \E keys \in {update_keys_chunked(probe_out.keys, c)} :
           /\ probe_in' = c
           /\ probe_out' = [keys |-> keys, bytes |-> decrypt_byte_chunked(keys[3])]
    /\ probe_keys' = probe_out.keys
    /\ probe_n' = probe_n + 1
    /\ UNCHANGED <<enumVars, threadVars, runVars, katVars, table>>

NextLanes == ApplyLanes

SpecLanes == InitLanes /\ [][NextLanes]_vars

(***************************************************************************)
(* password_matches_unrolled on its own                                    *)
(***************************************************************************)
\* a block over the alphabet of the options, its prefix state in probe_keys
ProbeBlock ==
    [password_prefix |-> <<>>,
     alphabet |-> chunked_alphabet(opt.alphabet),
     initialized_keys |-> probe_keys]

\* the call is followed on the alphabets a, ab, abc, a .. h and a .. i, from
\* the prefix states of the empty prefix, of a and of b, into a buffer that is
\* empty or already holds one or two bytes
InitMatches ==
    /\ opt \in {[alphabet |-> a, min_length |-> 1, max_length |-> 1,
                 start_password |-> NoStart, unroll |-> TRUE, num_threads |-> 1] :
                    a \in Alphabets \cup BlockAlphabets}
    /\ eds = <<>>
    /\ Spawned
    /\ first_found = <<>>
    /\ first_emitted = <<>>
    /\ WorkersAlone
    /\ KatIdle
    /\ table = <<>>
    /\ probe_keys \in {FeedPassword(InitialKeys, p) : p \in {<<>>, <<97>>, <<98>>}}
    /\ probe_in = 0
    /\ probe_out \in {<<>>, <<120>>, <<120, 121>>}
    /\ probe_n = 0

\* password_matches_unrolled(password_block, ed, &mut matching_chars), the
\* buffer being what the call before left
ApplyMatches ==
    /\ probe_n < MaxProbes
    /\ \E ed \in {F1, F2, F3, F4} :
          /\ probe_in' = [ed |-> ed, matching_chars |-> probe_out]
          /\ probe_out' = password_matches_unrolled(ProbeBlock, ed, probe_out)
    /\ probe_n' = probe_n + 1
    /\ UNCHANGED <<enumVars, threadVars, runVars, katVars, table, probe_keys>>

SpecMatches == InitMatches /\ [][ApplyMatches]_vars

(***************************************************************************)
(* test_each_password_unrolled: the callback of one worker, block after    *)
(* block                                                                   *)
(***************************************************************************)
\* how many blocks the worker is followed for
MaxBlocks == 200010

\* the worker is met before its first block, or when it has been handed
\* 2 * RECENT_BLOCKS blocks: one publication lies behind it, at the block
\* that found block_counter at RECENT_BLOCKS, and its block_counter has been
\* counting from 0 since.  probe_n is the number of blocks so far, probe_out
\* the numbers of the blocks that were published.
InitRecent ==
    /\ opt = [alphabet |-> <<97>>, min_length |-> 1, max_length |-> 2,
              start_password |-> NoStart, unroll |-> TRUE, num_threads |-> 1]
    /\ eds = <<>>
    /\ pc = [w \in Workers |-> "callback"]
    /\ password_idx = [w \in Workers |-> <<0>>]
    /\ password = [w \in Workers |-> <<97>>]
    /\ initialized_keys = [w \in Workers |-> ExtendKeys(<<InitialKeys>>, <<97>>)]
    /\ emitted = [w \in Workers |-> <<>>]
    /\ \E blocks \in {0, 2 * RECENT_BLOCKS} :
          /\ probe_n = blocks
          /\ counter = blocks * Len(opt.alphabet)
          /\ block_counter = [w \in Workers |-> IF blocks = 0 THEN 0 ELSE RECENT_BLOCKS - 1]
          /\ probe_out = IF blocks = 0 THEN <<>> ELSE <<RECENT_BLOCKS + 1>>
          /\ recent_password = IF blocks = 0 THEN <<45>> ELSE <<97, 45>>
    /\ found_passwords = <<>>
    /\ first_found = <<>>
    /\ first_emitted = <<>>
    /\ WorkersAlone
    /\ KatIdle
    /\ table = <<>>
    /\ probe_keys = InitialKeys
    /\ probe_in = 0

\* callback_with_info of test_each_password_unrolled on one more block of the
\* same prefix
BlockCallback ==
    /\ probe_n < MaxBlocks
    /\ \E c \in {callback_with_info_unrolled(Info, block_counter[0], eds, Block(0),
                                             opt.alphabet)} :
          /\ counter' = c.counter
          /\ block_counter' = [block_counter EXCEPT ![0] = c.blocks]
          /\ recent_password' = c.recent
          /\ found_passwords' = c.found
          /\ probe_out' = IF block_counter[0] = RECENT_BLOCKS
                          THEN Append(probe_out, probe_n + 1)
                          ELSE probe_out
    /\ probe_n' = probe_n + 1
    /\ UNCHANGED <<opt, eds, pc, password_idx, password, initialized_keys, emitted,
                   first_found, first_emitted, threadVars, runVars, katVars, table,
                   probe_keys, probe_in>>

SpecRecent == InitRecent /\ [][BlockCallback]_vars

(***************************************************************************)
(* decrypt.rs: test_three_letter_passwords                                 *)
(***************************************************************************)
BASE64_ALPHABET ==
    <<43, 47, 48, 49, 50, 51, 52, 53, 54, 55, 56, 57,
      65, 66, 67, 68, 69, 70, 71, 72, 73, 74, 75, 76, 77,
      78, 79, 80, 81, 82, 83, 84, 85, 86, 87, 88, 89, 90,
      97, 98, 99, 100, 101, 102, 103, 104, 105, 106, 107, 108, 109,
      110, 111, 112, 113, 114, 115, 116, 117, 118, 119, 120, 121, 122>>

\* `let ed = EncryptionData { .. }`
KatEd ==
    [encryption_header |-> <<147, 150, 41, 25, 165, 183, 31, 129, 76, 121, 70, 196>>,
     last_mod_file_time |-> 40784]

\* b"---"
KatFresh == <<45, 45, 45>>

\* the password of turn n (from 0) of the three nested loops
KatPassword(n) ==
    <<BASE64_ALPHABET[(n \div 4096) + 1],
      BASE64_ALPHABET[((n \div 64) % 64) + 1],
      BASE64_ALPHABET[(n % 64) + 1]>>

\* the number of turns of the innermost loop
KatTotal == Len(BASE64_ALPHABET) * Len(BASE64_ALPHABET) * Len(BASE64_ALPHABET)

\* the test before its loops
InitKnownAnswer ==
    /\ EnumIdle /\ ProbeIdle
    /\ kat_n = 0
    /\ kat_password = KatFresh
    /\ kat_found = <<>>

\* the body of the innermost loop
TryPassword ==
    /\ kat_n < KatTotal
    /\ kat_password' = KatPassword(kat_n)
    /\ kat_found' = IF password_matches(KatEd, KatPassword(kat_n))
                    THEN Append(kat_found, KatPassword(kat_n))
                    ELSE kat_found
    /\ kat_n' = kat_n + 1
    /\ UNCHANGED <<enumVars, threadVars, runVars, probeVars>>

NextKnownAnswer == TryPassword

SpecKnownAnswer == InitKnownAnswer /\ [][NextKnownAnswer]_vars

(***************************************************************************)
(* opt.rs: Alphabet::from_str                                              *)
(***************************************************************************)
\* a sort that leaves the vector as it is
unsorted(v) == v

\* chars.sort_unstable(): the bytes in ascending order, by partition around the
\* middle element
RECURSIVE sort_unstable(_)
sort_unstable(v) ==
    IF Len(v) <= 1 THEN v
    ELSE LET pivot == v[(Len(v) + 1) \div 2]
         IN sort_unstable(SelectSeq(v, LAMBDA x : x < pivot))
                \o SelectSeq(v, LAMBDA x : x = pivot)
                \o sort_unstable(SelectSeq(v, LAMBDA x : x > pivot))

\* the longest list of letters after "custom:"
MaxLetters == 3

\* "custom:"
CustomPrefix == <<99, 117, 115, 116, 111, 109, 58>>

\* <Alphabet as FromStr>::from_str on the bytes of the argument
from_str(s) ==
    IF \E n \in 1..Len(s) : s[n] >= 128
    THEN [ok |-> FALSE, err |-> "Alphabet contains non-ASCII characters"]
    ELSE IF s = <<98, 97, 115, 101, 54, 52>>
    THEN [ok |-> TRUE, alphabet |-> BASE64_ALPHABET]
    ELSE IF Len(s) >= Len(CustomPrefix) /\ SubSeq(s, 1, Len(CustomPrefix)) = CustomPrefix
    THEN IF Len(s) = Len(CustomPrefix)
         THEN [ok |-> FALSE, err |-> "Custom alphabet cannot be empty"]
         ELSE [ok |-> TRUE,
               alphabet |-> dedup(sort_unstable(SubSeq(s, Len(CustomPrefix) + 1, Len(s))))]
    ELSE [ok |-> FALSE, err |-> "Invalid alphabet"]

\* the values of --alphabet the parser is run on: custom: with up to MaxLetters
\* letters out of a, b, c and a non-ASCII byte; base64; and four other words
AlphabetArgs ==
    {CustomPrefix \o l : l \in Strings(<<97, 98, 99, 233>>, 0, MaxLetters)}
        \cup {<<98, 97, 115, 101, 54, 52>>, <<98, 97, 115, 101, 54, 52, 120>>, <<>>,
              <<99, 117, 115, 116, 111, 109>>, <<67, 117, 115, 116, 111, 109, 58, 97>>,
              <<233>>}

InitAlphabet ==
    /\ EnumIdle /\ KatIdle
    /\ table = <<>>
    /\ probe_keys = InitialKeys
    /\ probe_in \in AlphabetArgs
    /\ probe_out = 0
    /\ probe_n = 0

\* structopt parses the value of --alphabet once
ParseAlphabet ==
    /\ probe_n = 0
    /\ probe_out' = from_str(probe_in)
    /\ probe_n' = 1
    /\ UNCHANGED <<enumVars, threadVars, runVars, katVars, table, probe_keys, probe_in>>

SpecAlphabet == InitAlphabet /\ [][ParseAlphabet]_vars

(***************************************************************************)
(* crack_unrolled: the two buffers of the block check                      *)
(***************************************************************************)
\* the longest fingerprint list the block check is followed on
MaxEds == 2

\* the bytes from..to in descending order
Descending(from, to) == [n \in 1..(to - from + 1) |-> to + 1 - n]

\* n times the byte b
Repeat(b, n) == [k \in 1..n |-> b]

\* the values of --alphabet the block check is followed on: base64; custom:
\* with b, with ba, with a .. i, with every ASCII byte an argument can hold
\* (127 down to 1) and with forty letters b
BufferArgs ==
    {<<98, 97, 115, 101, 54, 52>>,
     CustomPrefix \o <<98>>,
     CustomPrefix \o <<98, 97>>,
     CustomPrefix \o <<105, 104, 103, 102, 101, 100, 99, 98, 97>>,
     CustomPrefix \o Descending(1, 127),
     CustomPrefix \o Repeat(98, 40)}

\* the fingerprint lists: up to MaxEds fingerprints out of F1 and F4, and a
\* list of as many entries F4 as fill more than the buffer with eight bytes each
BufferEds ==
    UNION {[1..n -> {F1, F4}] : n \in 0..MaxEds}
        \cup {[n \in 1..(RESULT_CAPACITY \div 8 + 2) |-> F4]}

\* the block of the candidate whose prefix state is probe_keys
BufferBlock ==
    [password_prefix |-> <<>>,
     alphabet |-> chunked_alphabet(opt.alphabet),
     initialized_keys |-> probe_keys]

\* `ArrayVec::<u8, RESULT_CAPACITY>::new()` twice; probe_out.filled is the
\* length of the buffer the last call pushed into, before any clear
InitBuffer ==
    /\ probe_in \in BufferArgs
    /\ opt = [alphabet |-> from_str(probe_in).alphabet, min_length |-> 1, max_length |-> 1,
              start_password |-> NoStart, unroll |-> TRUE, num_threads |-> 1]
    /\ eds \in BufferEds
    /\ Spawned
    /\ first_found = <<>>
    /\ first_emitted = <<>>
    /\ WorkersAlone
    /\ KatIdle
    /\ table = <<>>
    /\ probe_keys \in {FeedPassword(InitialKeys, p) : p \in {<<>>, <<97>>, <<98>>}}
    /\ probe_out = [matching_chars |-> <<>>, matching_chars_other |-> <<>>, filled |-> 0]
    /\ probe_n = 0

\* `if let Some(ed) = iter.next() { password_matches_unrolled(.., &mut matching_chars) }`
FirstCheck ==
    /\ probe_n = 0
    /\ Len(eds) > 0
    /\ LET chars == password_matches_unrolled(BufferBlock, eds[1], probe_out.matching_chars)
       IN probe_out' = [probe_out EXCEPT !.matching_chars = chars, !.filled = Len(chars)]
    /\ probe_n' = 1
    /\ UNCHANGED <<enumVars, threadVars, runVars, katVars, table, probe_keys, probe_in>>

\* one turn of the loop in which matching_chars_other is never cleared
OtherCheck_keeping ==
    /\ probe_n >= 1
    /\ probe_n < Len(eds)
    /\ probe_out.matching_chars # <<>>
    /\ LET other == password_matches_unrolled(BufferBlock, eds[probe_n + 1],
                                              probe_out.matching_chars_other)
       IN probe_out' = [matching_chars |-> retain(probe_out.matching_chars, other),
                        matching_chars_other |-> other,
                        filled |-> Len(other)]
    /\ probe_n' = probe_n + 1
    /\ UNCHANGED <<enumVars, threadVars, runVars, katVars, table, probe_keys, probe_in>>

\* one turn of `for ed in iter`: the call into matching_chars_other, the retain
\* and the clear; the loop is entered only with a match of the first fingerprint
OtherCheck ==
    /\ probe_n >= 1
    /\ probe_n < Len(eds)
    /\ probe_out.matching_chars # <<>>
    /\ LET other == password_matches_unrolled(BufferBlock, eds[probe_n + 1],
                                              probe_out.matching_chars_other)
       IN probe_out' = [matching_chars |-> retain(probe_out.matching_chars, other),
                        matching_chars_other |-> <<>>,
                        filled |-> Len(other)]
    /\ probe_n' = probe_n + 1
    /\ UNCHANGED <<enumVars, threadVars, runVars, katVars, table, probe_keys, probe_in>>

NextBuffer == FirstCheck \/ OtherCheck

SpecBuffer == InitBuffer /\ [][NextBuffer]_vars

(***************************************************************************)
(* The enumeration: C1 .. C4                                               *)
(***************************************************************************)
\* the candidates worker w has handed to its callback, in order
Passwords(w) == [n \in 1..Len(emitted[w]) |-> emitted[w][n].pw]

\* the elements of a sequence
ToSet(v) == {v[n] : n \in 1..Len(v)}

RECURSIVE Pow(_, _)
Pow(b, n) == IF n = 0 THEN 1 ELSE b * Pow(b, n - 1)

\* the k-th string (from 0) of a length, in alphabet order: k written in base
\* |alphabet| with the letters as digits
Numeral(alphabet, len, k) ==
    [p \in 1..len |-> alphabet[((k \div Pow(Len(alphabet), len - p)) % Len(alphabet)) + 1]]

\* the strings of one length in alphabet order
OfLength(alphabet, len) ==
    [k \in 1..Pow(Len(alphabet), len) |-> Numeral(alphabet, len, k - 1)]

\* the strings with a length in lo .. hi, shortest first
RECURSIVE Enumeration(_, _, _)
Enumeration(alphabet, lo, hi) ==
    IF lo > hi THEN <<>> ELSE OfLength(alphabet, lo) \o Enumeration(alphabet, lo + 1, hi)

\* the search space of the enumerator of the workers
SearchSpace ==
    Enumeration(EnumOpt(opt).alphabet, EnumOpt(opt).min_length, EnumOpt(opt).max_length)

\* C1: with num_threads = 1 and no start_password the worker hands its callback
\* the strings over the alphabet with a length in [min_length, max_length],
\* each once, shortest first and in alphabet order within a length: what it has
\* emitted is always an initial part of that list and is the whole list when
\* it returns; it does not panic.
C1_SingleShardEnumeration ==
    (opt.num_threads = 1 /\ ~EnumOpt(opt).start_password.is_some) =>
        /\ pc[0] # "panicked"
        /\ Len(emitted[0]) <= Len(SearchSpace)
        /\ Passwords(0) = SubSeq(SearchSpace, 1, Len(emitted[0]))
        /\ pc[0] = "done" => Passwords(0) = SearchSpace

\* abc, lengths 1 .. 3, one worker: it has returned after 39 candidates
\* a, b, c, aa, ab, .., ccc
C1_Witness ==
    /\ ~opt.unroll
    /\ opt.alphabet = <<97, 98, 99>> /\ opt.min_length = 1 /\ opt.max_length = 3
    /\ opt.num_threads = 1
    /\ pc[0] = "done"
    /\ Len(emitted[0]) = 39
    /\ SubSeq(Passwords(0), 1, 5) = <<<<97>>, <<98>>, <<99>>, <<97, 97>>, <<97, 98>>>>
    /\ Passwords(0)[39] = <<99, 99, 99>>

\* C2: KEY-STACK.  When the callback is about to be called the key stack has
\* |password| + 1 entries, entry 0 is the initial constants, entry i is the
\* state after feeding password[0..i] through update_keys from the initial
\* constants; the state the callback was last handed is the state after feeding
\* the whole candidate it came with.
C2_KeyStack ==
    \A w \in Workers :
        /\ pc[w] = "callback" =>
              /\ Len(initialized_keys[w]) = Len(password[w]) + 1
              /\ initialized_keys[w][1] = InitialKeys
              /\ \A n \in 0..Len(password[w]) :
                     initialized_keys[w][n + 1] =
                         FeedPassword(InitialKeys, SubSeq(password[w], 1, n))
        /\ Len(emitted[w]) > 0 =>
               emitted[w][Len(emitted[w])].keys =
                   FeedPassword(InitialKeys, emitted[w][Len(emitted[w])].pw)

\* ab, three workers: worker 0 is at its third candidate aaa, reached from ab
\* by an advance that carried over both positions and grew the candidate
C2_Witness ==
    /\ ~opt.unroll
    /\ opt.alphabet = <<97, 98>> /\ opt.num_threads = 3
    /\ pc[0] = "callback"
    /\ Passwords(0) = <<<<97>>, <<97, 98>>>>
    /\ password[0] = <<97, 97, 97>>
    /\ Len(initialized_keys[0]) = 4

\* how often worker w emitted the string s
Emissions(w, s) == Cardinality({n \in 1..Len(emitted[w]) : emitted[w][n].pw = s})

\* how often the workers 0 .. w emitted the string s
RECURSIVE EmissionsUpTo(_, _)
EmissionsUpTo(w, s) ==
    IF w < 0 THEN 0 ELSE Emissions(w, s) + EmissionsUpTo(w - 1, s)

\* C3: when all shards have returned, every candidate of the search space was
\* emitted by exactly one shard exactly once, and nothing else was emitted
\* (num_threads may exceed the number of candidates).
C3_ShardsPartition ==
    AllDone =>
        /\ \A s \in ToSet(SearchSpace) : EmissionsUpTo(opt.num_threads - 1, s) = 1
        /\ \A w \in Workers : ToSet(Passwords(w)) \subseteq ToSet(SearchSpace)

\* p comes before q: shorter, or as long and smaller at the first position
\* where they differ, in the order of the alphabet
Before(alphabet, p, q) ==
    \/ Len(p) < Len(q)
    \/ /\ Len(p) = Len(q)
       /\ \E n \in 1..Len(p) :
              /\ \A k \in 1..(n - 1) : p[k] = q[k]
              /\ position(alphabet, p[n]) < position(alphabet, q[n])

\* C4: within a shard every candidate handed to the callback comes strictly
\* after the one handed to it before (length, then alphabet order), and the
\* candidate handed over last was never handed over before by the same shard.
C4_ShardOrder ==
    \A w \in Workers :
        /\ \A n \in 1..(Len(emitted[w]) - 1) :
               Before(opt.alphabet, emitted[w][n].pw, emitted[w][n + 1].pw)
        /\ \A n \in 1..(Len(emitted[w]) - 1) :
               emitted[w][n].pw # emitted[w][Len(emitted[w])].pw

\* abc, three workers: worker 2 has returned after more than three candidates,
\* the first of length 1 and the last of length 3
C4_Witness ==
    /\ ~opt.unroll
    /\ opt.alphabet = <<97, 98, 99>> /\ opt.num_threads = 3
    /\ opt.min_length = 1 /\ opt.max_length = 3
    /\ pc[2] = "done"
    /\ Len(emitted[2]) = 13
    /\ Passwords(2)[1] = <<99>>
    /\ Passwords(2)[2] = <<97, 99>>
    /\ Passwords(2)[13] = <<99, 99, 99>>

(***************************************************************************)
(* The header check: C5, C6                                                *)
(***************************************************************************)
\* the cipher states before the header bytes 0 .. 11 and after the last, when
\* each decrypted byte is fed back into the state
HeaderStates(ed, keys) ==
    LET RECURSIVE go(_)
        go(ks) ==
            IF Len(ks) = 13 THEN ks
            ELSE go(Append(ks, update_keys(ks[Len(ks)],
                                           xor8(ed.encryption_header[Len(ks)],
                                                decrypt_byte(ks[Len(ks)][3])))))
    IN go(<<keys>>)

\* decrypted header byte n (from 0): ciphertext xor keystream of the current k2
Plain(ed, ks, n) == xor8(ed.encryption_header[n + 1], decrypt_byte(ks[n + 1][3]))

\* decrypted bytes 10 and 11 are the low and the high byte of last_mod_file_time
Accepts(ed, keys) ==
    /\ Plain(ed, HeaderStates(ed, keys), 10) = ed.last_mod_file_time % 256
    /\ Plain(ed, HeaderStates(ed, keys), 11) = ed.last_mod_file_time \div 256

\* C5: encryption_data_matches accepts a cipher state iff the decrypted header
\* bytes 10 and 11 are the low and the high byte of last_mod_file_time, and on
\* the state reached by feeding a password from the initial constants it gives
\* the verdict of password_matches on that password.
C5_HeaderCheck ==
    \A w \in Workers :
        pc[w] = "callback" =>
            \A n \in 1..Len(eds) :
                /\ encryption_data_matches(eds[n], TopKeys(w)) = Accepts(eds[n], TopKeys(w))
                /\ encryption_data_matches(eds[n], FeedPassword(InitialKeys, password[w]))
                       = password_matches(eds[n], password[w])

\* the candidate ab is about to be checked against two fingerprints: the first
\* accepts it; and c, which the first accepts and the second rejects
C5_Witness ==
    /\ ~opt.unroll
    /\ eds = <<F2, F1>>
    /\ pc[0] = "callback"
    /\ password[0] = <<97, 98>>
    /\ encryption_data_matches(F2, TopKeys(0))
    /\ encryption_data_matches(F1, TopKeys(0))
    /\ password_matches(F2, <<99>>)
    /\ ~password_matches(F1, <<99>>)
    /\ F1.last_mod_file_time % 256 # F1.last_mod_file_time \div 256

\* C6: for a non-empty list of fingerprints, min_length >= 1 and no
\* start_password, the unrolled driver records the same set of passwords as
\* the scalar driver on the same options and archive.
C6_SameHits ==
    (AllDone /\ opt.unroll /\ opt.min_length >= 1 /\ Len(eds) > 0
            /\ ~opt.start_password.is_some) =>
        ToSet(found_passwords) = ToSet(first_found)

\* both drivers have run on abc, lengths 1 .. 2, and recorded aa and ab
C6_Witness ==
    /\ AllDone /\ opt.unroll
    /\ opt.alphabet = <<97, 98, 99>> /\ opt.min_length = 1 /\ opt.max_length = 2
    /\ eds = <<F3>>
    /\ ToSet(first_found) = {<<97, 97>>, <<97, 98>>}
    /\ ToSet(found_passwords) = {<<97, 97>>, <<97, 98>>}

(***************************************************************************)
(* The cipher primitives: C7 .. C10                                        *)
(***************************************************************************)
\* 3bw, 5Zx, IWY, M3e, P61, eVw, sHD
KnownAnswer ==
    <<<<51, 98, 119>>, <<53, 90, 120>>, <<73, 87, 89>>, <<77, 51, 101>>,
      <<80, 54, 49>>, <<101, 86, 119>>, <<115, 72, 68>>>>

\* the turn (from 0) in which the loops try a three-letter password
KatTurn(pw) ==
    4096 * position(BASE64_ALPHABET, pw[1]) + 64 * position(BASE64_ALPHABET, pw[2])
    + position(BASE64_ALPHABET, pw[3])

\* the turns of the seven passwords
KnownAnswerTurns == [n \in 1..Len(KnownAnswer) |-> KatTurn(KnownAnswer[n])]

\* the passwords of KnownAnswer the loops have come past after tried turns
KnownAnswerUpTo(tried) ==
    LET RECURSIVE go(_, _)
        go(out, n) ==
            IF n > Len(KnownAnswer) THEN out
            ELSE IF KnownAnswerTurns[n] < tried THEN go(Append(out, KnownAnswer[n]), n + 1)
                 ELSE go(out, n + 1)
    IN go(<<>>, 1)

\* C7: over the 64^3 three-letter base64 passwords tried in alphabet order,
\* password_matches accepts, for the header and time of the test, the seven
\* passwords 3bw, 5Zx, IWY, M3e, P61, eVw, sHD, in this order, and no other: at
\* every turn the passwords found are those of the seven tried so far.
C7_KnownAnswer ==
    /\ kat_found = KnownAnswerUpTo(kat_n)
    /\ kat_n = KatTotal => kat_found = KnownAnswer

\* all 262144 passwords were tried, zzz the last, and seven were found
C7_Witness ==
    /\ kat_n = 262144
    /\ kat_password = <<122, 122, 122>>
    /\ Len(kat_found) = 7
    /\ kat_found[1] = <<51, 98, 119>>
    /\ kat_found[7] = <<115, 72, 68>>

\* u8 `^` u8 from the bits of the operands
XorByte(a, b) ==
    XorBit(a, b, 0) + XorBit(a, b, 1) + XorBit(a, b, 2) + XorBit(a, b, 3)
    + XorBit(a, b, 4) + XorBit(a, b, 5) + XorBit(a, b, 6) + XorBit(a, b, 7)

\* u32 `^` u32 from the bits of the operands
XorWord(x, y) ==
    <<XorByte(x[1], y[1]), XorByte(x[2], y[2]), XorByte(x[3], y[3]), XorByte(x[4], y[4])>>

\* a u32 as two 16-bit halves, low first, and back
Halves(x) == <<x[1] + 256 * x[2], x[3] + 256 * x[4]>>

HalvesWord(h) == <<h[1] % 256, h[1] \div 256, h[2] % 256, h[2] \div 256>>

\* (a + b) mod 2^32 on halves
AddHalves(a, b) ==
    <<(a[1] + b[1]) % 65536, (a[2] + b[2] + ((a[1] + b[1]) \div 65536)) % 65536>>

\* (a * 2^k) mod 2^32 on halves
ShlHalves(a, k) ==
    IF k < 16
    THEN <<(a[1] * 2^k) % 65536, (((a[2] * 2^k) % 65536) + ((a[1] * 2^k) \div 65536)) % 65536>>
    ELSE <<0, (a[1] * 2^(k - 16)) % 65536>>

\* (a * 134775813) mod 2^32 on halves: 134775813 = 2^27 + 2^19 + 2^15 + 2^10 + 2^2 + 1
MulHalves(a) ==
    AddHalves(AddHalves(AddHalves(a, ShlHalves(a, 2)),
                        AddHalves(ShlHalves(a, 10), ShlHalves(a, 15))),
              AddHalves(ShlHalves(a, 19), ShlHalves(a, 27)))

\* ((k1 + low) * 134775813 + 1) mod 2^32
RefKey1(k1, low) ==
    HalvesWord(AddHalves(MulHalves(AddHalves(Halves(k1), <<low, 0>>)), <<1, 0>>))

\* table[(k & 0xFF) xor c] xor (k >> 8)
RefCrc(k, c) == XorWord(CRC_32_TAB[XorByte(k[1], c)], <<k[2], k[3], k[4], 0>>)

\* k2' from the new k1
RefFromKey1(k0n, k1n, k2) == <<k0n, k1n, RefCrc(k2, k1n[4])>>

\* k1' and k2' from the new k0
RefFromKey0(k0n, k1, k2) == RefFromKey1(k0n, RefKey1(k1, k0n[1]), k2)

\* the three formulas of the claim
RefUpdateKeys(keys, c) == RefFromKey0(RefCrc(keys[1], c), keys[2], keys[3])

\* C8: update_keys on (k0, k1, k2) and c gives k0' = table[(k0 & 0xFF) xor c]
\* xor (k0 >> 8), k1' = ((k1 + (k0' & 0xFF)) * 134775813 + 1) mod 2^32 and
\* k2' = table[(k2 & 0xFF) xor (k1' >> 24)] xor (k2 >> 8), every word a 32-bit
\* word again; the initial constants are 0x12345678, 0x23456789, 0x34567890.
C8_UpdateKeys ==
    /\ 134775813 = 2^27 + 2^19 + 2^15 + 2^10 + 2^2 + 1
    /\ InitialKeys = <<<<120, 86, 52, 18>>, <<137, 103, 69, 35>>, <<144, 120, 86, 52>>>>
    /\ probe_n > 0 =>
           /\ probe_out = RefUpdateKeys(probe_keys, probe_in)
           /\ \A n \in 1..3 : \A k \in 1..4 : probe_out[n][k] \in Byte

\* update_keys was applied to k1 = 0xFFFFFFFF and the sum with the low byte of
\* the new k0 wrapped
C8_Witness ==
    /\ probe_n > 0
    /\ probe_keys[2] = <<255, 255, 255, 255>>
    /\ probe_out[1][1] > 0
    /\ probe_out = update_keys(probe_keys, probe_in)

\* t xor 1 for t < 2^16
RefXor1(t) == 256 * (t \div 256) + XorByte(t % 256, 1)

\* ((t * (t xor 1)) >> 8) & 0xFF for t < 2^16, the product not truncated: with
\* u = t xor 1, t * u = (t mod 256) * u + 256 * (t div 256) * u
RefKeystream(t) ==
    ((((t % 256) * RefXor1(t)) \div 256) + (t \div 256) * RefXor1(t)) % 256

\* (k2 & 0xFFFF) | 2
RefTemp(k2) == (k2[1] + 256 * k2[2]) + (IF Bit(k2[1], 1) = 1 THEN 0 ELSE 2)

\* C9: decrypt_byte(k2) is ((t * (t xor 1)) >> 8) & 0xFF with
\* t = (k2 & 0xFFFF) | 2 and the product taken in full: the 16-bit wrapping
\* product of the code gives the same byte.
C9_DecryptByte ==
    probe_n > 0 => probe_out = RefKeystream(RefTemp(probe_keys[3]))

\* decrypt_byte was applied to a key whose product t * (t xor 1) does not fit
\* 16 bits: t = 0xFFFF
C9_Witness ==
    /\ probe_n > 0
    /\ probe_keys[3] = <<255, 255, 255, 255>>
    /\ probe_out = decrypt_byte(probe_keys[3])

\* 0xEDB88320
ReflectedPoly == <<32, 131, 184, 237>>

\* u32 `>> 1`
RefShr1(x) ==
    <<(x[1] \div 2) + 128 * (x[2] % 2), (x[2] \div 2) + 128 * (x[3] % 2),
      (x[3] \div 2) + 128 * (x[4] % 2), x[4] \div 2>>

\* one right-shift step of the reflected CRC-32
RefCrcStep(x) == IF x[1] % 2 = 1 THEN XorWord(RefShr1(x), ReflectedPoly) ELSE RefShr1(x)

\* the reflected CRC-32 advance of crc by one byte: 8 right-shift steps
RefCrcAdvance(crc, byte) ==
    RefCrcStep(RefCrcStep(RefCrcStep(RefCrcStep(RefCrcStep(RefCrcStep(RefCrcStep(RefCrcStep(
        <<XorByte(crc[1], byte), crc[2], crc[3], crc[4]>>))))))))

\* C10: the table entry crc32_byte(b) computes is the reflected CRC-32 advance
\* of crc 0 by the byte b with polynomial 0xEDB88320, for every byte b; and
\* crc32(crc, byte) is table[(crc & 0xFF) xor byte] xor (crc >> 8), which is
\* that advance of crc by byte.
C10_CrcTable ==
    /\ \A n \in 1..Len(table) : table[n] = RefCrcAdvance(ToWord(0), n - 1)
    /\ Len(table) = 256 => \A n \in 0..255 : CRC_32_TAB[n] = table[n + 1]
    /\ probe_n > 0 =>
           /\ probe_out = XorWord(table[XorByte(probe_keys[1][1], probe_in) + 1],
                                  <<probe_keys[1][2], probe_keys[1][3], probe_keys[1][4], 0>>)
           /\ probe_out = RefCrcAdvance(probe_keys[1], probe_in)

\* the table is complete, its entries 1 and 255 are 0x77073096 and 0x2D02EF8D,
\* and crc32 was applied to what an earlier call returned
C10_Witness ==
    /\ Len(table) = 256
    /\ table[2] = <<150, 48, 7, 119>>
    /\ table[256] = <<141, 239, 2, 45>>
    /\ probe_n = 2
    /\ probe_in = 97
    /\ probe_out = crc32(probe_keys[1], probe_in)

(***************************************************************************)
(* The eight-lane primitives: C11                                          *)
(***************************************************************************)
\* C11: lane i of update_keys_chunked is update_keys of lane i's keys and lane
\* i's byte, and lane i of decrypt_byte_chunked is decrypt_byte of lane i's
\* key 2; a lane's result is a function of that lane's inputs alone.
C11_LaneWise ==
    /\ Len(probe_out.bytes) = 8
    /\ \A k \in 1..3 : Len(probe_out.keys[k]) = 8
    /\ \A l \in 1..8 :
           /\ probe_n > 0 =>
                  LaneKeys(probe_out.keys, l) = update_keys(LaneKeys(probe_keys, l), probe_in[l])
           /\ probe_out.bytes[l] = decrypt_byte(probe_out.keys[3][l])

\* three updates in a row on lanes that hold different keys and are fed
\* different bytes, with different results
C11_Witness ==
    /\ probe_n = MaxProbes
    /\ probe_in = <<1, 2, 4, 8, 16, 32, 64, 128>>
    /\ \A l \in 1..7 : LaneKeys(probe_keys, l) # LaneKeys(probe_keys, l + 1)
    /\ \A l \in 1..7 : LaneKeys(probe_out.keys, l) # LaneKeys(probe_out.keys, l + 1)
    /\ \E l \in 1..7 : probe_out.bytes[l] # probe_out.bytes[l + 1]

(***************************************************************************)
(* The threads: C12 ..                                                     *)
(***************************************************************************)
\* the callbacks (scalar) or blocks (unrolled) started so far, over all workers
CallbacksStarted ==
    LET RECURSIVE sum(_)
        sum(w) == IF w >= opt.num_threads THEN 0 ELSE Len(emitted[w]) + sum(w + 1)
    IN sum(0)

\* what one callback adds to the counter
CounterStep == IF opt.unroll THEN Len(opt.alphabet) ELSE 1

\* C12: however the workers are interleaved, the attempt counter is at every
\* moment the number of callbacks started so far (scalar) or |alphabet| times
\* the number of blocks started so far (unrolled), and no step decreases it.
C12_CounterCounts ==
    /\ [](counter = CounterStep * CallbacksStarted)
    /\ [][counter' >= counter]_vars

\* two workers in scalar mode, each with one callback started, the first not
\* yet through its shard, and the progress thread in between with a reading
\* of 1
C12_Witness ==
    /\ schedule = "free" /\ ~opt.unroll /\ opt.num_threads = 2
    /\ Len(emitted[0]) = 1 /\ Len(emitted[1]) = 1
    /\ pc[0] = "callback"
    /\ counter = 2
    /\ info_pc = "polling" /\ last_counter = 1

\* |alphabet|^lo + .. + |alphabet|^hi
RECURSIVE SpaceSize(_, _, _)
SpaceSize(n, lo, hi) == IF lo > hi THEN 0 ELSE Pow(n, lo) + SpaceSize(n, lo + 1, hi)

\* the number of passwords of the search space, as the counter accounts for it
SpaceTotal ==
    IF opt.unroll
    THEN SpaceSize(Len(opt.alphabet),
                   IF opt.min_length = 0 THEN 1 ELSE opt.min_length, opt.max_length)
    ELSE SpaceSize(Len(opt.alphabet), opt.min_length, opt.max_length)

\* C13: when every worker has finished, for any num_threads >= 1, the attempt
\* counter is the number of passwords of the search space: the sum of
\* |alphabet|^L for L from min_length (scalar) or max(1, min_length) (unrolled)
\* to max_length.
C13_CounterTotal == AllDone => counter = SpaceTotal

\* the candidates of the search space that match every fingerprint
MatchingCandidates ==
    {p \in ToSet(Enumeration(opt.alphabet,
                             IF opt.unroll /\ opt.min_length = 0 THEN 1 ELSE opt.min_length,
                             opt.max_length)) :
        \A n \in 1..Len(eds) : password_matches(eds[n], p)}

\* C14: for every num_threads >= 1, once all workers have joined, the hit list
\* holds exactly the candidates of the search space that match every
\* fingerprint, each exactly once, in some order.
C14_HitList ==
    AllDone =>
        /\ ToSet(found_passwords) = MatchingCandidates
        /\ Len(found_passwords) = Cardinality(MatchingCandidates)

(***************************************************************************)
(* The start password and the empty password: C15, C16                     *)
(***************************************************************************)
\* the place of a string in a list (0: not in it)
IndexOf(list, p) ==
    IF \E k \in 1..Len(list) : list[k] = p
    THEN CHOOSE k \in 1..Len(list) : list[k] = p
    ELSE 0

\* the start password and the candidates after it in the length-then-alphabet
\* order of the search space
FromStart ==
    SubSeq(SearchSpace, IndexOf(SearchSpace, EnumOpt(opt).start_password.pw), Len(SearchSpace))

\* the condition of C15 on the options the enumerator runs with
StartInRange ==
    /\ EnumOpt(opt).start_password.is_some
    /\ opt.num_threads = 1
    /\ EnumOpt(opt).min_length <= Len(EnumOpt(opt).start_password.pw)
    /\ Len(EnumOpt(opt).start_password.pw) <= EnumOpt(opt).max_length

C15_Safe ==
    StartInRange =>
        /\ pc[0] # "panicked"
        /\ IndexOf(SearchSpace, EnumOpt(opt).start_password.pw) > 0
        /\ Len(emitted[0]) <= Len(FromStart)
        /\ Passwords(0) = SubSeq(FromStart, 1, Len(emitted[0]))
        /\ pc[0] = "done" => Passwords(0) = FromStart

\* C15: with a start password s over the alphabet and min_length <= |s| <=
\* max_length the single shard emits s first, then exactly the candidates
\* after s in length-then-alphabet order up to the last one of length
\* max_length, none that precedes s, and it terminates (in the scalar run and
\* in the prefix enumeration of the unrolled run).
C15_StartPassword ==
    /\ []C15_Safe
    /\ <>(AllDone /\ ~opt.unroll)
    /\ <>(AllDone /\ opt.unroll)

\* ab, lengths 1 .. 3, --start-password ba: the worker has returned after
\* ba, bb, aaa, .., bbb; a, b, aa and ab were never emitted
C15_Witness ==
    /\ ~opt.unroll /\ opt.alphabet = <<97, 98>>
    /\ opt.min_length = 1 /\ opt.max_length = 3
    /\ opt.start_password = [is_some |-> TRUE, pw |-> <<98, 97>>]
    /\ pc[0] = "done"
    /\ Len(emitted[0]) = 10
    /\ Passwords(0)[1] = <<98, 97>> /\ Passwords(0)[2] = <<98, 98>>
    /\ Passwords(0)[3] = <<97, 97, 97>> /\ Passwords(0)[10] = <<98, 98, 98>>

\* C16: with min_length = 0 and no start password the first candidate shard 0
\* hands to the callback is the empty password with the initial keys; with one
\* shard the length-1 candidates follow in alphabet order; with max_length = 0
\* the empty password is the only candidate of the shard and the shard has
\* returned when that one callback is over.  (min_length and max_length are
\* those the enumerator runs with.)
C16_EmptyPassword ==
    (EnumOpt(opt).min_length = 0 /\ ~EnumOpt(opt).start_password.is_some) =>
        /\ pc[0] # "panicked"
        /\ Len(emitted[0]) >= 1 => emitted[0][1] = [pw |-> <<>>, keys |-> InitialKeys]
        /\ (opt.num_threads = 1 /\ EnumOpt(opt).max_length >= 1) =>
               \A k \in 1..Len(opt.alphabet) :
                   Len(emitted[0]) > k => emitted[0][k + 1].pw = <<opt.alphabet[k]>>
        /\ EnumOpt(opt).max_length = 0 =>
               /\ Len(emitted[0]) <= 1
               /\ Len(emitted[0]) = 1 => pc[0] = "done"

\* abc, lengths 0 .. 2, one worker, scalar: the empty password, then a, b, c,
\* then aa
C16_Witness ==
    /\ ~opt.unroll /\ opt.num_threads = 1
    /\ opt.alphabet = <<97, 98, 99>> /\ opt.min_length = 0 /\ opt.max_length = 2
    /\ Len(emitted[0]) = 5
    /\ emitted[0][1] = [pw |-> <<>>, keys |-> InitialKeys]
    /\ Passwords(0) = <<<<>>, <<97>>, <<98>>, <<99>>, <<97, 97>>>>

(***************************************************************************)
(* The blocks of the unrolled enumeration: C17                             *)
(***************************************************************************)
\* the candidates of the scalar run of worker 0, kept at the second run
ScalarPasswords == [n \in 1..Len(first_emitted[0]) |-> first_emitted[0][n].pw]

\* every block emitted so far by worker 0 expanded into prefix + byte, for
\* each byte of each chunk in order
Expanded ==
    LET chunks == chunked_alphabet(opt.alphabet)
        per == 8 * Len(chunks)
    IN [k \in 1..(per * Len(emitted[0])) |->
           Append(emitted[0][((k - 1) \div per) + 1].pw,
                  chunks[(((k - 1) % per) \div 8) + 1][((k - 1) % 8) + 1])]

\* a list without the entries equal to the entry just before them
DropRepeats(list) ==
    LET kept == SelectSeq([k \in 1..Len(list) |-> k],
                          LAMBDA k : k = 1 \/ list[k] # list[k - 1])
    IN [n \in 1..Len(kept) |-> list[kept[n]]]

\* each chunk holds 8 bytes: the alphabet in order, the last chunk filled up
\* with the last byte of the alphabet
ChunksPadded ==
    LET chunks == chunked_alphabet(opt.alphabet)
    IN /\ Len(chunks) = (Len(opt.alphabet) + 7) \div 8
       /\ \A n \in 1..Len(chunks) :
              /\ Len(chunks[n]) = 8
              /\ \A l \in 1..8 :
                     chunks[n][l] = opt.alphabet[IF 8 * (n - 1) + l <= Len(opt.alphabet)
                                                 THEN 8 * (n - 1) + l
                                                 ELSE Len(opt.alphabet)]

\* C17: for min_length >= 1 and one shard, the blocks of the unrolled
\* enumeration, expanded into prefix + each byte of each 8-byte chunk and with
\* repeated neighbours dropped, are the candidates of the scalar enumeration
\* for the same min_length and max_length, in the same order; every chunk has
\* 8 bytes and the last one is padded with the last byte of the alphabet.
C17_BlocksExpand ==
    (opt.unroll /\ opt.num_threads = 1 /\ opt.min_length >= 1) =>
        /\ ChunksPadded
        /\ Len(DropRepeats(Expanded)) <= Len(ScalarPasswords)
        /\ DropRepeats(Expanded) = SubSeq(ScalarPasswords, 1, Len(DropRepeats(Expanded)))
        /\ pc[0] = "done" => DropRepeats(Expanded) = ScalarPasswords

\* a .. i (two chunks, the second padded with i), lengths 1 .. 2: ten blocks
\* expand to the 90 candidates of the scalar run
C17_Witness ==
    /\ opt.unroll /\ opt.num_threads = 1
    /\ Len(opt.alphabet) = 9 /\ opt.min_length = 1 /\ opt.max_length = 2
    /\ pc[0] = "done"
    /\ Len(emitted[0]) = 10
    /\ Len(Expanded) = 160
    /\ Len(ScalarPasswords) = 90
    /\ chunked_alphabet(opt.alphabet)[2] = <<105, 105, 105, 105, 105, 105, 105, 105>>

(***************************************************************************)
(* The progress thread and the end of the run: C18, C19                    *)
(***************************************************************************)
\* C18: the progress thread leaves its polling loop on two equal readings
\* (the first taken when the thread is created) only when every worker has
\* exhausted its shard, and the total it then prints is the final attempt
\* count.
C18_ExitsWhenDone ==
    /\ info_pc \in {"final", "exited"} => AllDone
    /\ \A n \in 1..Len(printed) : printed[n] = counter

\* the progress thread has terminated
InfoOver == info_pc \in {"exited", "failed"}

\* C19: the run terminates: every worker finishes its shard, once all workers
\* have finished the progress thread leaves its loop and terminates, and
\* run_with_info_thread returns, which it does only when every worker and the
\* progress thread have terminated.
C19_Terminates ==
    /\ <>AllDone
    /\ AllDone ~> InfoOver
    /\ <>(main_pc = "returned")
    /\ [](main_pc = "returned" => AllDone /\ InfoOver)

\* two workers have finished after three callbacks, the progress thread has
\* read 3 twice and printed it, and run_with_info_thread has returned
C19_Witness ==
    /\ main_pc = "returned"
    /\ opt.num_threads = 2 /\ ~opt.unroll
    /\ pc[0] = "done" /\ pc[1] = "done"
    /\ counter = 3 /\ last_counter = 3
    /\ info_pc = "exited"
    /\ printed = <<3>>

(***************************************************************************)
(* The length bounds: C20                                                  *)
(***************************************************************************)
\* the length of the passwords checked by the n-th callback of worker w: the
\* candidate (scalar) or the prefix and one last character (unrolled)
CheckedLength(w, n) == Len(emitted[w][n].pw) + (IF opt.unroll THEN 1 ELSE 0)

\* C20: in scalar and in unrolled mode every password checked against the
\* fingerprints has a length L with min_length <= L <= max_length.
C20_LengthBounds ==
    \A w \in Workers : \A n \in 1..Len(emitted[w]) :
        /\ opt.min_length <= CheckedLength(w, n)
        /\ CheckedLength(w, n) <= opt.max_length

(***************************************************************************)
(* The alphabet option: C23                                                *)
(***************************************************************************)
\* the letters given after "custom:"
Letters == SubSeq(probe_in, Len(CustomPrefix) + 1, Len(probe_in))

\* a well-formed custom alphabet: "custom:" and at least one letter, all ASCII
CustomGiven ==
    /\ Len(probe_in) > Len(CustomPrefix)
    /\ SubSeq(probe_in, 1, Len(CustomPrefix)) = CustomPrefix
    /\ \A n \in 1..Len(probe_in) : probe_in[n] < 128

\* strictly ascending, hence without duplicates
Ascending(v) == \A n \in 1..(Len(v) - 1) : v[n] < v[n + 1]

\* C23: custom:<letters> parses to exactly the distinct letters given, in
\* strictly ascending byte order, whatever their order and repetition (the
\* result is determined by the set of letters); every alphabet the parser
\* accepts, base64 included, is non-empty, ASCII and strictly ascending.
C23_AlphabetNormalised ==
    probe_n = 1 =>
        /\ CustomGiven =>
              /\ probe_out.ok
              /\ ToSet(probe_out.alphabet) = ToSet(Letters)
              /\ Ascending(probe_out.alphabet)
        /\ probe_out.ok =>
              /\ probe_out.alphabet # <<>>
              /\ \A n \in 1..Len(probe_out.alphabet) : probe_out.alphabet[n] < 128
              /\ Ascending(probe_out.alphabet)
        /\ probe_in = CustomPrefix \o <<98, 97>> => probe_out.alphabet = <<97, 98>>

\* custom:bab has been parsed to ab
C23_Witness ==
    /\ probe_n = 1
    /\ probe_in = CustomPrefix \o <<98, 97, 98>>
    /\ probe_out = [ok |-> TRUE, alphabet |-> <<97, 98>>]

(***************************************************************************)
(* The start of the process: C21, C22, C24                                 *)
(***************************************************************************)
\* C21: with min_length > max_length the process exits at startup: no worker
\* hands a candidate to its callback and the attempt counter stays 0.
C21_LengthsRejected ==
    opt.min_length > opt.max_length =>
        /\ counter = 0
        /\ \A w \in Workers : emitted[w] = <<>>

\* C22: the exit code is 0 when the search ran to its end, and it is not 0
\* when result_main returned an error, which main has then written out.
C22_ExitCode ==
    main_pc = "exited" =>
        /\ (stderr = <<>> /\ AllDone) => exit_code = 0
        /\ stderr # <<>> => exit_code # 0

\* the files of the model that are not a sequence of ZIP records
Malformed ==
    {EncryptedEntry \o Eocd \o <<0, 1, 2>>,
     SubSeq(EncryptedEntry, 1, Len(EncryptedEntry) - 1),
     <<0, 1, 2>>,
     LocalFileBytes(1, 5) \o <<1, 2, 3, 4, 5>> \o Eocd}

\* C24: when the bytes read are not a sequence of ZIP records, no worker is
\* started and no password is reported.
C24_ParserRejects ==
    (input.readable /\ input.bytes \in Malformed) =>
        /\ \A w \in Workers : pc[w] = "unborn"
        /\ found_passwords = <<>>

(***************************************************************************)
(* Shard striping: C25                                                     *)
(***************************************************************************)
\* the candidates at the positions i, i + N, i + 2N, .. of the single-shard
\* sequence, positions counted from 0
Stripe(i, N) ==
    [k \in 1..((Len(SearchSpace) - i + N - 1) \div N) |-> SearchSpace[i + (k - 1) * N + 1]]

\* C25: shard i of N emits exactly the candidates at the positions i, i + N,
\* i + 2N, .. of the single-shard sequence: what it has emitted is always an
\* initial part of that stripe, and the whole stripe when it has returned; a
\* shard whose first position lies past the last candidate emits nothing.
C25_Striping ==
    \A w \in Workers :
        /\ Len(emitted[w]) <= Len(Stripe(w, opt.num_threads))
        /\ Passwords(w) = SubSeq(Stripe(w, opt.num_threads), 1, Len(emitted[w]))
        /\ pc[w] = "done" => Passwords(w) = Stripe(w, opt.num_threads)

(***************************************************************************)
(* The unrolled block check: C26                                           *)
(***************************************************************************)
\* the letters ch of the alphabet, in its order, for which every fingerprint
\* accepts the password prefix + ch, each appended to the prefix
ExpectedHits(prefix) ==
    LET accepted == SelectSeq(opt.alphabet,
                              LAMBDA ch : \A n \in 1..Len(eds) :
                                  password_matches(eds[n], Append(prefix, ch)))
    IN [k \in 1..Len(accepted) |-> Append(prefix, accepted[k])]

\* C26: for a non-empty fingerprint list the unrolled block check returns
\* exactly the passwords prefix + ch, ch a letter of the alphabet that every
\* fingerprint accepts after the prefix, each once and in alphabet order; it
\* returns nothing when no letter is left, and the repeats that come from the
\* padding of the last chunk are removed.
C26_BlockCheck ==
    \A w \in Workers :
        (opt.unroll /\ pc[w] = "callback" /\ Len(eds) > 0) =>
            crack_unrolled_callback(eds, Block(w)) = ExpectedHits(password[w])

\* the block of the prefix a over the alphabet ab, padded to a b b b b b b b,
\* is about to be checked against two fingerprints that both accept ab, the
\* first also aa: the check returns ab once
C26_Witness ==
    /\ opt.unroll /\ opt.alphabet = <<97, 98>>
    /\ eds = <<F3, F2>>
    /\ pc[0] = "callback" /\ password[0] = <<97>>
    /\ password_matches_unrolled(Block(0), F3, <<>>) = <<97, 98, 98, 98, 98, 98, 98, 98>>
    /\ password_matches_unrolled(Block(0), F2, <<>>) = <<98, 98, 98, 98, 98, 98, 98>>
    /\ crack_unrolled_callback(eds, Block(0)) = <<<<97, 98>>>>

(***************************************************************************)
(* The lanes of the block check: C27                                       *)
(***************************************************************************)
\* the lanes of the block, chunk by chunk and lane by lane
AllLanes ==
    [k \in 1..(8 * Len(ProbeBlock.alphabet)) |->
        ProbeBlock.alphabet[((k - 1) \div 8) + 1][((k - 1) % 8) + 1]]

\* the bytes of the lanes the scalar check accepts after the prefix state
ScalarLanes(ed) ==
    SelectSeq(AllLanes, LAMBDA c : encryption_data_matches(ed, update_keys(probe_keys, c)))

\* C27: password_matches_unrolled appends to the buffer, chunk by chunk and
\* lane by lane, the byte of every lane for which encryption_data_matches
\* accepts the state after update_keys(prefix state, byte), and no other byte;
\* the bytes already in the buffer stay as they are.
C27_MatchingBytes ==
    probe_n > 0 => probe_out = probe_in.matching_chars \o ScalarLanes(probe_in.ed)

\* after the prefix a, over the alphabet ab, the fingerprint that accepts aa
\* and ab: a and the seven lanes of b are appended to a buffer that held x
C27_Witness ==
    /\ probe_n = 1
    /\ opt.alphabet = <<97, 98>>
    /\ probe_keys = FeedPassword(InitialKeys, <<97>>)
    /\ probe_in = [ed |-> F3, matching_chars |-> <<120>>]
    /\ probe_out = <<120, 97, 98, 98, 98, 98, 98, 98, 98>>

(***************************************************************************)
(* The publication of the recent candidate: C28                            *)
(***************************************************************************)
\* C28: in unrolled mode two consecutive publications of a worker are exactly
\* RECENT_BLOCKS blocks apart.
C28_PublishEvery ==
    \A k \in 2..Len(probe_out) : probe_out[k] - probe_out[k - 1] = RECENT_BLOCKS

(***************************************************************************)
(* The two mutexes: C29, C30                                               *)
(***************************************************************************)
\* every hit among the candidates handed to the callbacks is in the hit list
FoundAll ==
    \A w \in Workers : \A n \in 1..Len(emitted[w]) :
        IF opt.unroll
        THEN ToSet(ExpectedHits(emitted[w][n].pw)) \subseteq ToSet(found_passwords)
        ELSE (\A k \in 1..Len(eds) : password_matches(eds[k], emitted[w][n].pw))
                 => emitted[w][n].pw \in ToSet(found_passwords)

\* C29: when the progress thread has stopped early on a failed terminal
\* command or log write it holds neither mutex; every worker still runs to the
\* end of its shard, the hits are in the hit list then, and the run joins (a
\* thread that has stopped stays stopped, so the run is joined after the stop
\* iff time and again the thread has not stopped or the run is joined).
C29_InfoFailure ==
    /\ [](info_pc = "failed" =>
              /\ found_mutex # <<"info">>
              /\ recent_mutex # <<"info">>
              /\ (AllDone => FoundAll))
    /\ []<>(info_pc # "failed" \/ (AllDone /\ main_pc = "returned"))

\* the progress thread has stopped after at least one turn of its loop, and
\* worker 0 then locked the hit list to push a hit
C29_Witness ==
    /\ info_pc = "failed"
    /\ last_counter > 0
    /\ main_pc = "workers"
    /\ pc[0] = "push"
    /\ found_mutex = <<"worker", 0>>
    /\ hits[0] = <<<<98>>>>

\* a thread is waiting for a mutex
Waiting ==
    \/ info_pc \in {"lock_found", "lock_recent"}
    \/ \E w \in Workers : pc[w] \in {"lock_found", "lock_recent"}

\* C30: a worker never holds both mutexes, and a thread holds a mutex only
\* between its lock and its drop; the progress thread, once it asks for the
\* hit list, gets it and then the recent candidate, and a worker that asks for
\* a mutex gets it: a thread leaves its wait only with the mutex, so time and
\* again no thread is waiting.
C30_NoDeadlock ==
    /\ [](\A w \in Workers :
              /\ ~(recent_mutex = <<"worker", w>> /\ found_mutex = <<"worker", w>>)
              /\ recent_mutex = <<"worker", w>> <=> pc[w] = "publish"
              /\ found_mutex = <<"worker", w>> <=> pc[w] = "push")
    /\ [](found_mutex = <<"info">> <=> info_pc \in {"lock_recent", "printing"})
    /\ [](recent_mutex = <<"info">> <=> info_pc = "printing")
    /\ []<>(~Waiting)

\* the progress thread holds the hit list and waits for the recent candidate,
\* which worker 0 holds, while worker 1 waits for the hit list
C30_Witness ==
    /\ info_pc = "lock_recent"
    /\ found_mutex = <<"info">>
    /\ recent_mutex = <<"worker", 0>>
    /\ opt.num_threads = 2
    /\ pc[1] = "lock_found"

\* C31: the bounded result buffer never overflows. For every alphabet the
\* option parser accepts, the padded chunks hold at most RESULT_CAPACITY lanes,
\* and the bytes a call of password_matches_unrolled leaves in the buffer it
\* pushes into, padded duplicate lanes included, are at most one per lane: no
\* push of the block check fails, whatever the fingerprints
C31_BufferBounded ==
    /\ Len(opt.alphabet) <= 128
    /\ 8 * Len(BufferBlock.alphabet) <= RESULT_CAPACITY
    /\ probe_out.filled <= 8 * Len(BufferBlock.alphabet)
    /\ probe_out.filled <= RESULT_CAPACITY
    /\ Len(probe_out.matching_chars) <= RESULT_CAPACITY
    /\ ~BlockPanics(eds, BufferBlock)

\* the argument with forty letters b gives the alphabet b, one chunk of eight
\* lanes b; every fingerprint of the long list accepts b and its last call has
\* filled the cleared buffer with all eight lanes
C31_Witness ==
    /\ probe_in = CustomPrefix \o Repeat(98, 40)
    /\ opt.alphabet = <<98>>
    /\ Len(eds) > RESULT_CAPACITY \div 8
    /\ probe_n = Len(eds)
    /\ probe_out.filled = 8
    /\ probe_out.matching_chars = Repeat(98, 8)
    /\ probe_out.matching_chars_other = <<>>

(***************************************************************************)
(* No fingerprint, no hit: C32                                             *)
(***************************************************************************)
\* C32: once the archive is parsed and has yielded no encrypted entry, the hit
\* list stays empty for the whole run, in scalar mode as in unrolled mode.
C32_NoFingerprintNoHit ==
    (main_pc \notin {"read", "parse"} /\ eds = <<>>) => found_passwords = <<>>

====
